---- MODULE Spec2Model ----
(***************************************************************************)
(* Entity resolution and batch orchestration of the CartInspect proxy and  *)
(* its data scripts (proxy/server.js, scripts/fetch-all-uat-data.js,       *)
(* scripts/retry-missing-uats.js, scripts/retry-final.js).                 *)
(*                                                                         *)
(* JavaScript strings are sequences of characters; a character is a one-   *)
(* letter string, and a letter with a diacritic is written with a mark     *)
(* after it ("a~" a-breve, "s~" s-comma, "t~" t-comma, "s," s-cedilla,     *)
(* "a^" a-circumflex, "i^" i-circumflex; capitals alike).  A JavaScript    *)
(* object that may be null/undefined is a record or null; a number that    *)
(* may be null/undefined is a sequence of at most one number.              *)
(***************************************************************************)
EXTENDS Integers, Sequences, FiniteSets, TLC

VARIABLES
    \* ---- query strategy generation (one locality)
    qImpl, qCounty, qName, qKind, qOut,
    \* ---- one application of the matcher to one search result
    mImpl, mCounty, mName, mNodes, mDone, mMatch,
    \* ---- resolution of one locality
    rImpl, rCounty, rName, rKind, rStage, rOuter, rStrategies, rIdx, rMatch,
    rLast, rEverMatched, rAfterMatch, rResp, rData, rStats,
    \* ---- batch scripts
    script, pc, file, UAT_DATA, result, missing, i, data, found,
    stillMissing, fetched, failed, notFound, pre, processed, answer, catalogOk,
    \* ---- the tax fetch of one entity
    tImpl, tSeen, tResult, tDone,
    \* ---- the housing fetch of one sub-locality code
    hImpl, hResp, hResult, hDone,
    \* ---- the two statistics fetches of one resolved entity
    aImpl, aMatch, aStage, aFin, aHou, aOut,
    \* ---- the network calls of one run of a script, locality after locality
    pScript, pIdx, pStage, pAttempt, pCalls, pHandlers

qVars == <<qImpl, qCounty, qName, qKind, qOut>>
mVars == <<mImpl, mCounty, mName, mNodes, mDone, mMatch>>
rVars == <<rImpl, rCounty, rName, rKind, rStage, rOuter, rStrategies, rIdx,
           rMatch, rLast, rEverMatched, rAfterMatch, rResp, rData,
           rStats>>
bVars == <<script, pc, file, UAT_DATA, result, missing, i, data, found,
           stillMissing, fetched, failed, notFound, pre, processed, answer,
           catalogOk>>
tVars == <<tImpl, tSeen, tResult, tDone>>
hVars == <<hImpl, hResp, hResult, hDone>>
aVars == <<aImpl, aMatch, aStage, aFin, aHou, aOut>>
pVars == <<pScript, pIdx, pStage, pAttempt, pCalls, pHandlers>>
xVars == <<tVars, hVars, aVars, pVars>>
vars == <<qVars, mVars, rVars, bVars, xVars>>

-----------------------------------------------------------------------------
(* JavaScript values *)

null == [null |-> TRUE]
Null == <<>>
Num(n) == <<n>>

-----------------------------------------------------------------------------
(* Strings *)

LowerChars ==
    << "a","b","c","d","e","f","g","h","i","j","k","l","m","n","o","p","q",
       "r","s","t","u","v","w","x","y","z","a~","s~","t~","s,","a^","i^" >>
UpperChars ==
    << "A","B","C","D","E","F","G","H","I","J","K","L","M","N","O","P","Q",
       "R","S","T","U","V","W","X","Y","Z","A~","S~","T~","S,","A^","I^" >>
MarkedChars ==
    << "a~","s~","t~","s,","a^","i^","A~","S~","T~","S,","A^","I^" >>
BaseChars ==
    << "a","s","t","s","a","i","A","S","T","S","A","I" >>

\* the characters toUpperCase changes, and those NFD normalisation splits
\* into a base letter and a combining mark
UpperOf ==
    [c \in {LowerChars[k] : k \in 1..Len(LowerChars)} |->
        UpperChars[CHOOSE k \in 1..Len(LowerChars) : LowerChars[k] = c]]
BaseOf ==
    [c \in {MarkedChars[k] : k \in 1..Len(MarkedChars)} |->
        BaseChars[CHOOSE k \in 1..Len(MarkedChars) : MarkedChars[k] = c]]

toUpperCase(s) ==
    [k \in 1..Len(s) |-> IF s[k] \in DOMAIN UpperOf THEN UpperOf[s[k]] ELSE s[k]]

\* s.normalize('NFD').replace(/[\u0300-\u036f]/g, '')
removeDiacritics(s) ==
    [k \in 1..Len(s) |-> IF s[k] \in DOMAIN BaseOf THEN BaseOf[s[k]] ELSE s[k]]

\* s.replace(/a/g, b) for single characters a, b
replaceAll(s, a, b) == [k \in 1..Len(s) |-> IF s[k] = a THEN b ELSE s[k]]

startsWith(s, t) == Len(t) <= Len(s) /\ SubSeq(s, 1, Len(t)) = t

includes(s, t) == \E k \in 0..(Len(s) - Len(t)) : SubSeq(s, k + 1, k + Len(t)) = t

hasChar(s, c) == \E k \in 1..Len(s) : s[k] = c

\* name.split(/[\s-]/)[0]
firstWordOf(s) ==
    IF \E k \in 1..Len(s) : s[k] \in {" ", "-"}
    THEN SubSeq(s, 1, (CHOOSE k \in 1..Len(s) :
                          /\ s[k] \in {" ", "-"}
                          /\ \A j \in 1..(k - 1) : s[j] \notin {" ", "-"}) - 1)
    ELSE s

\* parts = name.split(/\s+/); parts[parts.length - 1]
lastPartOf(s) ==
    IF hasChar(s, " ")
    THEN SubSeq(s, (CHOOSE k \in 1..Len(s) :
                       /\ s[k] = " "
                       /\ \A j \in (k + 1)..Len(s) : s[j] # " ") + 1, Len(s))
    ELSE s

SP == <<" ">>

\* a.indexOf(v) === i : the first occurrence of each string is kept
dedupe(a) ==
    LET keep(k) == \A j \in 1..(k - 1) : a[j] # a[k]
        F[k \in 0..Len(a)] ==
            IF k = 0 THEN <<>>
            ELSE IF keep(k) THEN Append(F[k - 1], a[k]) ELSE F[k - 1]
    IN  F[Len(a)]

elems(seq) == {seq[k] : k \in 1..Len(seq)}

\* seq.find(n => ...): the first element that satisfies the callback, which
\* is given by the set `hits` of the elements it holds of
find(seq, hits) ==
    IF \E k \in 1..Len(seq) : seq[k] \in hits
    THEN seq[CHOOSE k \in 1..Len(seq) :
                 seq[k] \in hits /\ \A j \in 1..(k - 1) : seq[j] \notin hits]
    ELSE null

\* the order of Array.prototype.sort() on strings: by UTF-16 code unit
CharOrder ==
    << " ", "-", "0","1","2","3","4","5","6","7","8","9",
       "A","B","C","D","E","F","G","H","I","J","K","L","M","N","O","P","Q",
       "R","S","T","U","V","W","X","Y","Z",
       "a","b","c","d","e","f","g","h","i","j","k","l","m","n","o","p","q",
       "r","s","t","u","v","w","x","y","z",
       "A^","I^","a^","i^","A~","a~","S,","s,","S~","s~","T~","t~" >>
codeOf ==
    [c \in {CharOrder[k] : k \in 1..Len(CharOrder)} |->
        CHOOSE k \in 1..Len(CharOrder) : CharOrder[k] = c]

lessStr(a, b) ==
    \E k \in 1..(Len(a) + 1) :
        /\ k <= Len(b)
        /\ \A j \in 1..(k - 1) : a[j] = b[j]
        /\ (k = Len(a) + 1 \/ codeOf[a[k]] < codeOf[b[k]])

\* the same strings from the greatest to the least
RECURSIVE sortedDescending(_)
sortedDescending(S) ==
    IF S = {} THEN <<>>
    ELSE LET m == CHOOSE x \in S : \A y \in S \ {x} : lessStr(y, x)
         IN  <<m>> \o sortedDescending(S \ {m})

RECURSIVE sorted(_)
sorted(S) ==
    IF S = {} THEN <<>>
    ELSE LET m == CHOOSE x \in S : \A y \in S \ {x} : lessStr(x, y)
         IN  <<m>> \o sorted(S \ {m})

-----------------------------------------------------------------------------
(* Entity classifier, proxy/server.js *)

uatName(n) == IF n.uat = null THEN <<>> ELSE n.uat.name
uatCounty(n) == IF n.uat = null THEN <<>> ELSE n.uat.county_name
uatSiruta(n) == IF n.uat = null THEN <<>> ELSE n.uat.siruta_code

isPrimaria(n) ==
    LET nm == toUpperCase(n.name)
    IN  \/ includes(nm, <<"P","R","I","M","A~","R","I","A">>)
        \/ includes(nm, <<"P","R","I","M","A","R","I","A">>)
        \/ includes(nm, <<"O","R","A","S~">>)
        \/ includes(nm, <<"O","R","A","S">>)
        \/ includes(nm, <<"M","U","N","I","C","I","P","I","U","L">>)
        \/ includes(nm, <<"C","O","M","U","N","A">>)

badKeywords ==
    << <<"S","C","O","A","L","A">>,   \* SCOALA
       <<"S~","C","O","A","L","A">>,   \* _COALA
       <<"S~","C","O","A","L","A~">>,   \* _COAL_
       <<"L","I","C","E","U","L">>,   \* LICEUL
       <<"L","I","C","E","U">>,   \* LICEU
       <<"G","R","A","D","I","N","I","T","A">>,   \* GRADINITA
       <<"G","R","A~","D","I","N","I","T~","A">>,   \* GR_DINI_A
       <<"G","R","A~","D","I","N","I","T~","A~">>,   \* GR_DINI__
       <<"S","P","I","T","A","L">>,   \* SPITAL
       <<"B","I","S","E","R","I","C","A">>,   \* BISERICA
       <<"B","I","S","E","R","I","C","A~">>,   \* BISERIC_
       <<"B","I","B","L","I","O","T","E","C","A">>,   \* BIBLIOTECA
       <<"B","I","B","L","I","O","T","E","C","A~">>,   \* BIBLIOTEC_
       <<"M","U","Z","E","U">>,   \* MUZEU
       <<"C","A","S","A"," ","D","E"," ","C","U","L","T","U","R","A">>,   \* CASA DE CULTURA
       <<"C","L","U","B","U","L">>,   \* CLUBUL
       <<"P","O","L","I","T","I","A">>,   \* POLITIA
       <<"P","O","L","I","T~","I","A">>,   \* POLI_IA
       <<"I","N","S","P","E","C","T","O","R","A","T">>,   \* INSPECTORAT
       <<"S","E","M","I","N","A","R","U","L">>,   \* SEMINARUL
       <<"C","O","L","E","G","I","U","L">>,   \* COLEGIUL
       <<"U","N","I","V","E","R","S","I","T","A","T","E">>,   \* UNIVERSITATE
       <<"G","I","M","N","A","Z","I","A","L">>,   \* GIMNAZIAL
       <<"T","R","I","B","U","N","A","L","U","L">>,   \* TRIBUNALUL
       <<"T","R","I","B","U","N","A","L">>,   \* TRIBUNAL
       <<"J","U","D","E","C","A","T","O","R","I","A">>,   \* JUDECATORIA
       <<"J","U","D","E","C","A~","T","O","R","I","A">>,   \* JUDEC_TORIA
       <<"C","U","R","T","E","A"," ","D","E"," ","A","P","E","L">>,   \* CURTEA DE APEL
       <<"P","A","R","C","H","E","T","U","L">>,   \* PARCHETUL
       <<"D","I","R","E","C","T","I","A">>,   \* DIRECTIA
       <<"D","I","R","E","C","T~","I","A">>,   \* DIREC_IA
       <<"A","G","E","N","T","I","A">>,   \* AGENTIA
       <<"A","G","E","N","T~","I","A">>,   \* AGEN_IA
       <<"C","A","M","E","R","A"," ","D","E"," ","C","O","M","E","R","T">>,   \* CAMERA DE COMERT
       <<"P","R","E","F","E","C","T","U","R","A">>,   \* PREFECTURA
       <<"S","E","R","V","I","C","I","U","L">>,   \* SERVICIUL
       <<"C","E","N","T","R","U","L">>,   \* CENTRUL
       <<"C","R","E","S","A">>,   \* CRESA
       <<"C","R","E","S~","A">>,   \* CRE_A
       <<"C","R","E","S,","A">>,   \* CRE_A
       <<"O","P","E","R","A"," ">>,   \* OPERA 
       <<"F","I","L","A","R","M","O","N","I","C","A">>,   \* FILARMONICA
       <<"T","E","A","T","R","U","L">>,   \* TEATRUL
       <<"S","P","O","R","T"," ","C","L","U","B">>,   \* SPORT CLUB
       <<"C","L","U","B","U","L"," ","S","P","O","R","T","I","V">>,   \* CLUBUL SPORTIV
       <<"I","N","S","T","I","T","U","T","I","A">>,   \* INSTITUTIA
       <<"I","N","S","T","I","T","U","T~","I","A">>,   \* INSTITU_IA
       <<"O","F","I","C","I","U","L">>,   \* OFICIUL
       <<"O","C","O","L","U","L">>,   \* OCOLUL
       <<"C","O","M","P","A","N","I","A">>,   \* COMPANIA
       <<"R","E","G","I","A">>,   \* REGIA
       <<"A","D","M","I","N","I","S","T","R","A","T","I","A">>,   \* ADMINISTRATIA
       <<"A","D","M","I","N","I","S","T","R","A","T~","I","A">>,   \* ADMINISTRA_IA
       <<"C","O","N","S","I","L","I","U","L"," ","J","U","D","E","T","E","A","N">>,   \* CONSILIUL JUDETEAN
       <<"C","O","N","S","I","L","I","U","L"," ","J","U","D","E","T~","E","A","N">>,   \* CONSILIUL JUDE_EAN
       <<"P","E","N","I","T","E","N","C","I","A","R">>,   \* PENITENCIAR
       <<"P","A","L","A","T","U","L">>,   \* PALATUL
       <<"C","A","S","A"," ","C","O","R","P","U","L","U","I">>,   \* CASA CORPULUI
       <<"A","S","O","C","I","A","T","I","A">>,   \* ASOCIATIA
       <<"A","S","O","C","I","A","T~","I","A">>,   \* ASOCIA_IA
       <<"F","U","N","D","A","T","I","A">>,   \* FUNDATIA
       <<"F","U","N","D","A","T~","I","A">>,   \* FUNDA_IA
       <<"S","O","C","I","E","T","A","T","E","A">>,   \* SOCIETATEA
       <<"A","U","T","O","R","I","T","A","T","E","A">>,   \* AUTORITATEA
       <<"C","O","M","I","S","A","R","I","A","T","U","L">>,   \* COMISARIATUL
       <<"G","A","R","D","A">>,   \* GARDA
       <<"J","A","N","D","A","R","M","E","R","I","A">>,   \* JANDARMERIA
       <<"P","O","M","P","I","E","R">>,   \* POMPIER
       <<"A","C","A","D","E","M","I","A">>,   \* ACADEMIA
       <<"F","A","C","U","L","T","A","T","E","A">> >>   \* FACULTATEA
badPrefixes ==
    << <<"J","U","D","E","T","U","L">>,   \* JUDETUL
       <<"J","U","D","E","T~","U","L">>,   \* JUDE_UL
       <<"C","O","N","S","I","L","I","U","L">> >>   \* CONSILIUL
badKeywords2 ==
    << <<"S","C","O","A","L","A">>,   \* SCOALA
       <<"S~","C","O","A","L","A">>,   \* _COALA
       <<"S~","C","O","A","L","A~">>,   \* _COAL_
       <<"L","I","C","E","U","L">>,   \* LICEUL
       <<"L","I","C","E","U">>,   \* LICEU
       <<"G","R","A","D","I","N","I","T","A">>,   \* GRADINITA
       <<"G","R","A~","D","I","N","I","T~","A">>,   \* GR_DINI_A
       <<"G","R","A~","D","I","N","I","T~","A~">>,   \* GR_DINI__
       <<"S","P","I","T","A","L">>,   \* SPITAL
       <<"B","I","S","E","R","I","C","A">>,   \* BISERICA
       <<"B","I","S","E","R","I","C","A~">>,   \* BISERIC_
       <<"B","I","B","L","I","O","T","E","C","A">>,   \* BIBLIOTECA
       <<"B","I","B","L","I","O","T","E","C","A~">>,   \* BIBLIOTEC_
       <<"M","U","Z","E","U">>,   \* MUZEU
       <<"C","A","S","A"," ","D","E"," ","C","U","L","T","U","R","A">>,   \* CASA DE CULTURA
       <<"C","L","U","B","U","L">>,   \* CLUBUL
       <<"P","O","L","I","T","I","A">>,   \* POLITIA
       <<"P","O","L","I","T~","I","A">>,   \* POLI_IA
       <<"I","N","S","P","E","C","T","O","R","A","T">>,   \* INSPECTORAT
       <<"S","E","M","I","N","A","R","U","L">>,   \* SEMINARUL
       <<"C","O","L","E","G","I","U","L">>,   \* COLEGIUL
       <<"U","N","I","V","E","R","S","I","T","A","T","E">>,   \* UNIVERSITATE
       <<"G","I","M","N","A","Z","I","A","L">>,   \* GIMNAZIAL
       <<"T","R","I","B","U","N","A","L","U","L">>,   \* TRIBUNALUL
       <<"T","R","I","B","U","N","A","L">>,   \* TRIBUNAL
       <<"J","U","D","E","C","A","T","O","R","I","A">>,   \* JUDECATORIA
       <<"J","U","D","E","C","A~","T","O","R","I","A">>,   \* JUDEC_TORIA
       <<"C","U","R","T","E","A"," ","D","E"," ","A","P","E","L">>,   \* CURTEA DE APEL
       <<"P","A","R","C","H","E","T","U","L">>,   \* PARCHETUL
       <<"D","I","R","E","C","T","I","A">>,   \* DIRECTIA
       <<"D","I","R","E","C","T~","I","A">>,   \* DIREC_IA
       <<"A","G","E","N","T","I","A">>,   \* AGENTIA
       <<"A","G","E","N","T~","I","A">>,   \* AGEN_IA
       <<"C","A","M","E","R","A"," ","D","E"," ","C","O","M","E","R","T">>,   \* CAMERA DE COMERT
       <<"P","R","E","F","E","C","T","U","R","A">>,   \* PREFECTURA
       <<"S","E","R","V","I","C","I","U","L">>,   \* SERVICIUL
       <<"C","E","N","T","R","U","L">> >>   \* CENTRUL
badPrefixes2 ==
    << <<"J","U","D","E","T","U","L">>,   \* JUDETUL
       <<"J","U","D","E","T~","U","L">> >>   \* JUDE_UL

isBlacklisted(n) ==
    LET nm == toUpperCase(n.name)
    IN  IF isPrimaria(n) THEN FALSE
        ELSE \/ \E k \in 1..Len(badKeywords) : includes(nm, badKeywords[k])
             \/ \E k \in 1..Len(badPrefixes) : startsWith(nm, badPrefixes[k])

\* the classifier of the file's second copy
isBlacklisted2(n) ==
    LET nm == toUpperCase(n.name)
    IN  \/ \E k \in 1..Len(badKeywords2) : includes(nm, badKeywords2[k])
        \/ \E k \in 1..Len(badPrefixes2) : startsWith(nm, badPrefixes2[k])

-----------------------------------------------------------------------------
(* The entities the search index may return, and their classification.  The
   classifier is applied once to each entity: office(n), excluded(n) and
   excluded2(n) are isPrimaria(n), isBlacklisted(n) and the second copy's
   isBlacklisted(n) read from that table. *)

sALBA == <<"A","L","B","A">>
sCLUJ == <<"C","L","U","J">>
sVALEA == <<"V","A","L","E","A">>
sMARE == <<"M","A","R","E">>
sTEI == <<"T","E","I">>
sCOMUNA == <<"C","O","M","U","N","A">>
sPRIMARIA == <<"P","R","I","M","A","R","I","A">>
sSCOALA == <<"S","C","O","A","L","A">>
sSERVICIUL == <<"S","E","R","V","I","C","I","U","L">>

CandNodes ==
    { [name |-> sCOMUNA \o SP \o sVALEA \o SP \o sMARE, cui |-> "c1",
       uat |-> [county_name |-> sALBA, name |-> sVALEA \o SP \o sMARE,
                siruta_code |-> <<"1","1">>]],
      [name |-> sSCOALA \o SP \o sVALEA \o SP \o sMARE, cui |-> "c2",
       uat |-> [county_name |-> sALBA, name |-> sVALEA \o SP \o sMARE,
                siruta_code |-> <<"1","1">>]],
      [name |-> sCOMUNA \o SP \o sVALEA \o SP \o sMARE, cui |-> "c3",
       uat |-> [county_name |-> sCLUJ, name |-> sVALEA \o SP \o sMARE,
                siruta_code |-> <<"2","2">>]],
      [name |-> sPRIMARIA \o SP \o sTEI, cui |-> "c4",
       uat |-> [county_name |-> sALBA, name |-> sTEI,
                siruta_code |-> <<"3","3">>]],
      [name |-> sSERVICIUL \o SP \o sCOMUNA \o SP \o sVALEA \o SP \o sMARE,
       cui |-> "c5",
       uat |-> [county_name |-> sALBA, name |-> sVALEA \o SP \o sMARE,
                siruta_code |-> <<"1","1">>]],
      [name |-> sVALEA \o SP \o sMARE, cui |-> "c6",
       uat |-> [county_name |-> sALBA, name |-> sVALEA \o SP \o sMARE,
                siruta_code |-> Null]],
      [name |-> sCOMUNA \o SP \o sVALEA, cui |-> "c7",
       uat |-> [county_name |-> sALBA, name |-> sVALEA,
                siruta_code |-> <<"4","4">>]],
      [name |-> sVALEA \o SP \o sMARE, cui |-> "c8", uat |-> null],
      [name |-> <<"C","o","m","u","n","a"," ","V","a","l","e","a","-","M","a","r","e">>,
       cui |-> "c9",
       uat |-> [county_name |-> <<"A","l","b","a">>,
                name |-> <<"V","a","l","e","a","-","M","a","r","e">>,
                siruta_code |-> <<"1","1">>]] }

classOf ==
    [n \in CandNodes |-> [isOffice |-> isPrimaria(n),
                          isExcluded |-> isBlacklisted(n),
                          isExcluded2 |-> isBlacklisted2(n)]]

office(n) == classOf[n].isOffice
excluded(n) == classOf[n].isExcluded
excluded2(n) == classOf[n].isExcluded2

-----------------------------------------------------------------------------
(* Resolver: candidate filtering and ranking *)

\* a normalisation that keeps hyphens
normKeepHyphens(s) == toUpperCase(s)

\* norm = (s) => (s || '').toUpperCase().replace(/-/g, ' ')
norm(s) == replaceAll(toUpperCase(s), "-", " ")

\* nodes.filter(n => county matches).filter(n => !isBlacklisted(n)), the
\* blacklisted nodes given by the set `bad`
inCountyOf(nodes, countyUpper, bad) ==
    LET inC(n) == n.uat # null /\ toUpperCase(n.uat.county_name) = countyUpper
        keep(n) == n \notin bad
    IN  SelectSeq(SelectSeq(nodes, inC), keep)

or(a, b) == IF a # null THEN a ELSE b

\* proxy/server.js, first copy
findBestMatch(nodes, countyUpper, nameUpper) ==
    LET inCounty == inCountyOf(nodes, countyUpper, {n \in elems(nodes) : excluded(n)})
        nameNorm == norm(nameUpper)
        r1(n) == office(n) /\ norm(uatName(n)) = nameNorm
        r2(n) == office(n) /\ includes(norm(uatName(n)), nameNorm)
        r3(n) == office(n) /\ includes(norm(n.name), nameNorm)
        r4(n) == norm(uatName(n)) = nameNorm
        r5(n) == \/ includes(norm(uatName(n)), nameNorm)
                 \/ includes(norm(n.name), nameNorm)
        c == elems(inCounty)
    IN  or(find(inCounty, {n \in c : r1(n)}),
        or(find(inCounty, {n \in c : r2(n)}),
        or(find(inCounty, {n \in c : r3(n)}),
        or(find(inCounty, {n \in c : r4(n)}),
           find(inCounty, {n \in c : r5(n)})))))

\* proxy/server.js, second copy
findBestMatch2(nodes, countyUpper, nameUpper) ==
    LET inCounty == inCountyOf(nodes, countyUpper, {n \in elems(nodes) : excluded2(n)})
        r1(n) == office(n) /\ toUpperCase(uatName(n)) = nameUpper
        r2(n) == toUpperCase(uatName(n)) = nameUpper /\ office(n)
        r3(n) == office(n) /\ includes(toUpperCase(uatName(n)), nameUpper)
        r4(n) == office(n) /\ includes(toUpperCase(n.name), nameUpper)
        r5(n) == /\ \/ includes(toUpperCase(uatName(n)), nameUpper)
                    \/ includes(toUpperCase(n.name), nameUpper)
                 /\ office(n)
        r6(n) == office(n)
        c == elems(inCounty)
    IN  or(find(inCounty, {n \in c : r1(n)}),
        or(find(inCounty, {n \in c : r2(n)}),
        or(find(inCounty, {n \in c : r3(n)}),
        or(find(inCounty, {n \in c : r4(n)}),
        or(find(inCounty, {n \in c : r5(n)}),
           find(inCounty, {n \in c : r6(n)}))))))

\* the match of the earliest proxy (unnamed/part_001)
findMatch0(nodes, countyUpper, nameUpper) ==
    LET inC(n) == n.uat # null /\ toUpperCase(n.uat.county_name) = countyUpper
        r1(n) == inC(n) /\ toUpperCase(n.uat.name) = nameUpper
        r2(n) == /\ inC(n)
                 /\ \/ includes(toUpperCase(n.uat.name), nameUpper)
                    \/ includes(toUpperCase(n.name), nameUpper)
        c == elems(nodes)
    IN  or(find(nodes, {n \in c : r1(n)}),
        or(find(nodes, {n \in c : r2(n)}),
           find(nodes, {n \in c : inC(n)})))

\* scripts/retry-final.js searchEntity: nodes.find(n => n.uat?.siruta_code)
findFirstWithUat(nodes) ==
    LET hasSiruta(n) == n.uat # null /\ n.uat.siruta_code # Null
    IN  find(nodes, {n \in elems(nodes) : hasSiruta(n)})

-----------------------------------------------------------------------------
(* Query strategies *)

Primaria_ == <<"P","r","i","m","a","r","i","a">>
Comuna_ == <<"C","o","m","u","n","a">>
Municipiul_ == <<"M","u","n","i","c","i","p","i","u","l">>
primaria_ == <<"p","r","i","m","a","r","i","a">>

\* TYPE_PREFIX[tip] || ''
TYPE_PREFIX(tip) ==
    CASE tip = "municipiu" -> <<"M","U","N","I","C","I","P","I","U","L">>
      [] tip = "oras" -> <<"O","R","A","S~","U","L">>
      [] tip = "comuna" -> <<"C","O","M","U","N","A">>
      [] OTHER -> <<>>

\* proxy/server.js, first copy: searchStrategies of one request
searchStrategies(county, name) ==
    LET nameHyphen == replaceAll(name, " ", "-")
        base == << Primaria_ \o SP \o name \o SP \o county,
                   Comuna_ \o SP \o name \o SP \o county,
                   name \o SP \o county,
                   Municipiul_ \o SP \o name \o SP \o county,
                   Primaria_ \o SP \o name >>
    IN  IF hasChar(name, " ")
        THEN base \o << Municipiul_ \o SP \o nameHyphen \o SP \o county,
                        nameHyphen \o SP \o county,
                        Primaria_ \o SP \o nameHyphen >>
        ELSE base

\* proxy/server.js, second copy
searchStrategies2(county, name) ==
    << Primaria_ \o SP \o name \o SP \o county,
       Comuna_ \o SP \o name \o SP \o county,
       name \o SP \o county,
       Municipiul_ \o SP \o name \o SP \o county,
       Primaria_ \o SP \o name >>

\* unnamed/part_001: the single search term
searchStrategies0(county, name) == << name \o SP \o county >>

\* scripts/retry-final.js main: patterns of one locality
patterns(county, uat, tip) ==
    LET prefix == TYPE_PREFIX(tip)
        plain == removeDiacritics(uat)
    IN  dedupe(<< prefix \o SP \o uat,
                  prefix \o SP \o plain,
                  uat \o SP \o county,
                  plain \o SP \o county,
                  primaria_ \o SP \o uat,
                  prefix \o SP \o firstWordOf(uat) \o SP \o county >>)

\* scripts/retry-missing-uats.js fetchWithRetry: the names it asks the proxy
\* for, in order
retryNames(county, name) ==
    LET plain == removeDiacritics(name)
        firstWord == firstWordOf(name)
        lastPart == lastPartOf(name)
    IN  <<name>>
        \o (IF plain # name THEN <<plain>> ELSE <<>>)
        \o (IF Len(firstWord) > 3 /\ firstWord # name THEN <<firstWord>> ELSE <<>>)
        \o (IF hasChar(name, " ") /\ Len(lastPart) > 3
            THEN <<lastPart \o SP \o county>> ELSE <<>>)
        \o (IF hasChar(name, "-") THEN <<replaceAll(name, "-", " ")>> ELSE <<>>)

-----------------------------------------------------------------------------
(* Values the variables of a part not under study are held at *)

MQuiet ==
    /\ mImpl = "none" /\ mCounty = <<>> /\ mName = <<>> /\ mNodes = <<>>
    /\ mDone = FALSE /\ mMatch = null

RQuiet ==
    /\ rImpl = "none" /\ rCounty = <<>> /\ rName = <<>> /\ rKind = "comuna"
    /\ rStage = "idle" /\ rOuter = 0 /\ rStrategies = <<>> /\ rIdx = 0
    /\ rMatch = null /\ rLast = null /\ rEverMatched = FALSE
    /\ rAfterMatch = FALSE /\ rResp = null /\ rData = null /\ rStats = 0

QQuiet ==
    /\ qImpl = "none" /\ qCounty = <<>> /\ qName = <<>> /\ qKind = "comuna"
    /\ qOut = <<>>

BQuiet ==
    /\ script = "none" /\ pc = "idle" /\ file = null /\ UAT_DATA = null
    /\ result = null /\ missing = <<>> /\ i = 0 /\ data = null /\ found = 0
    /\ stillMissing = 0 /\ fetched = 0 /\ failed = 0 /\ notFound = <<>>
    /\ pre = null /\ processed = <<>> /\ answer = null /\ catalogOk = TRUE

TQuiet == tImpl = "none" /\ tSeen = <<>> /\ tResult = null /\ tDone = FALSE

HQuiet == hImpl = "none" /\ hResp = null /\ hResult = null /\ hDone = FALSE

AQuiet ==
    /\ aImpl = "none" /\ aMatch = null /\ aStage = "idle" /\ aFin = null
    /\ aHou = null /\ aOut = null

PQuiet ==
    /\ pScript = "none" /\ pIdx = 0 /\ pStage = "idle" /\ pAttempt = 0
    /\ pCalls = {} /\ pHandlers = {}

XQuiet == TQuiet /\ HQuiet /\ AQuiet /\ PQuiet

-----------------------------------------------------------------------------
(* Specification SpecMatch: one application of a matcher to the result of
   one search call *)

MaxNodes == 2

NodeLists == UNION { [1..n -> CandNodes] : n \in 0..MaxNodes }

\* <<county, name>> of a request
MTargets ==
    { << <<"A","l","b","a">>, <<"V","a","l","e","a"," ","M","a","r","e">> >>,
      << <<"A","l","b","a">>, <<"V","a","l","e","a","-","M","a","r","e">> >>,
      << <<"A","l","b","a">>, <<"V","a","l","e","a">> >>,
      << <<"A","l","b","a">>, <<"T","e","i">> >> }

MInit ==
    /\ mImpl = "none" /\ mDone = FALSE /\ mMatch = null
    /\ \E t \in MTargets : mCounty = t[1] /\ mName = t[2]
    /\ mNodes \in NodeLists
    /\ QQuiet /\ RQuiet /\ BQuiet /\ XQuiet

\* match = findBestMatch(nodes, countyUpper, nameUpper), server.js first copy
MProxy ==
    /\ ~mDone
    /\ mImpl' = "proxy" /\ mDone' = TRUE
    /\ mMatch' = findBestMatch(mNodes, toUpperCase(mCounty), toUpperCase(mName))
    /\ UNCHANGED <<mCounty, mName, mNodes, qVars, rVars, bVars, xVars>>

\* the same call in the second copy of server.js
MProxy2 ==
    /\ ~mDone
    /\ mImpl' = "proxy2" /\ mDone' = TRUE
    /\ mMatch' = findBestMatch2(mNodes, toUpperCase(mCounty), toUpperCase(mName))
    /\ UNCHANGED <<mCounty, mName, mNodes, qVars, rVars, bVars, xVars>>

\* let match = nodes.find(..) || nodes.find(..) || nodes.find(..), part_001
MProxy0 ==
    /\ ~mDone
    /\ mImpl' = "proxy0" /\ mDone' = TRUE
    /\ mMatch' = findMatch0(mNodes, toUpperCase(mCounty), toUpperCase(mName))
    /\ UNCHANGED <<mCounty, mName, mNodes, qVars, rVars, bVars, xVars>>

\* const match = nodes.find(n => n.uat?.siruta_code), retry-final.js
MFinal ==
    /\ ~mDone
    /\ mImpl' = "final" /\ mDone' = TRUE
    /\ mMatch' = findFirstWithUat(mNodes)
    /\ UNCHANGED <<mCounty, mName, mNodes, qVars, rVars, bVars, xVars>>

MNext == MProxy \/ MProxy2 \/ MProxy0 \/ MFinal

SpecMatch == MInit /\ [][MNext]_vars

\* the candidates of a search result that are in the requested region (case-
\* insensitively) and not excluded
survivors(nodes, county) ==
    LET ok(n) == /\ toUpperCase(uatCounty(n)) = toUpperCase(county)
                 /\ ~(~isPrimaria(n) /\ isBlacklisted(n))
    IN  SelectSeq(nodes, ok)

\* the candidate's sub-locality name or display name contains the target
\* name, hyphens and spaces alike, whatever the case
containsName(n, name) ==
    \/ includes(norm(uatName(n)), norm(name))
    \/ includes(norm(n.name), norm(name))

(* C4: for every search result and every target (region, name) the Resolver
   never returns a candidate of another region than the requested one
   (compared case-insensitively), and returns no match when no candidate
   survives the region and exclusion filter. *)
C4_NeverOutsideRegion ==
    mDone /\ mImpl \in {"proxy", "final"} =>
        /\ mMatch # null => toUpperCase(uatCounty(mMatch)) = toUpperCase(mCounty)
        /\ survivors(mNodes, mCounty) = <<>> => mMatch = null

(* C5: every match the Resolver returns satisfies one of the five ranking
   rules, that is its sub-locality name or its display name contains the
   target name; a candidate that is merely of the right region is never
   returned, and without such a candidate the result is absent. *)
C5_NoGenericFallback ==
    mDone /\ mImpl \in {"proxy", "proxy2", "proxy0"} /\ mMatch # null =>
        containsName(mMatch, mName)

(* C6: the Resolver never returns an excluded candidate, that is an entity
   that is no office and whose display name contains a blacklist keyword or
   starts with a blacklist prefix. *)
C6_NeverExcluded ==
    mDone /\ mImpl \in {"proxy", "final"} /\ mMatch # null =>
        LET nm == toUpperCase(mMatch.name)
        IN  ~ /\ ~isPrimaria(mMatch)
              /\ \/ \E k \in 1..Len(badKeywords) : includes(nm, badKeywords[k])
                 \/ \E k \in 1..Len(badPrefixes) : startsWith(nm, badPrefixes[k])

(* C7: a candidate whose display name contains an office marker is never
   classified as excluded, whatever blacklist keywords or prefixes its name
   also contains; this is asked of the classifier of each copy of the
   proxy. *)
C7_OfficeOverridesBlacklist ==
    \A k \in 1..Len(mNodes) :
        isPrimaria(mNodes[k]) =>
            /\ (mImpl = "proxy" => ~excluded(mNodes[k]))
            /\ (mImpl = "proxy2" => ~excluded2(mNodes[k]))

\* a and b are equal after replacing all hyphens with spaces and upper-casing
hyphenSpaceEquivalent(a, b) ==
    /\ Len(a) = Len(b)
    /\ \A k \in 1..Len(a) :
          LET x == toUpperCase(<<a[k]>>)[1]
              y == toUpperCase(<<b[k]>>)[1]
          IN  (IF x = "-" THEN " " ELSE x) = (IF y = "-" THEN " " ELSE y)

\* the candidates of the region that are not excluded and whose sub-locality
\* name equals the target name, hyphens and spaces alike, whatever the case
equivalentSurvivors ==
    {k \in 1..Len(mNodes) :
        /\ mNodes[k].uat # null
        /\ toUpperCase(mNodes[k].uat.county_name) = toUpperCase(mCounty)
        /\ ~isBlacklisted(mNodes[k])
        /\ hyphenSpaceEquivalent(mNodes[k].uat.name, mName)}

(* C16: the name comparison of the Resolver takes hyphens and spaces as
   equal and ignores case: for a target name with a hyphen, a candidate of
   the region that is not excluded and whose sub-locality name is the space
   form is matched by the exact-name rules, and likewise for a target with a
   space and a hyphenated candidate. *)
C16_HyphenSpaceEquivalence ==
    mDone /\ mImpl = "proxy" /\ equivalentSurvivors # {} =>
        /\ mMatch # null
        /\ (\E k \in equivalentSurvivors : isPrimaria(mNodes[k])) =>
              /\ isPrimaria(mMatch)
              /\ hyphenSpaceEquivalent(mMatch.uat.name, mName)
        /\ Len(mNodes) = 1 => mMatch = mNodes[1]

\* the target has a hyphen and the match was indexed with a space
C16_Witness ==
    /\ mDone /\ mImpl = "proxy"
    /\ hasChar(mName, "-")
    /\ mMatch # null /\ mMatch.uat # null
    /\ hasChar(mMatch.uat.name, " ") /\ ~hasChar(mMatch.uat.name, "-")

\* the positions of the filtered candidates that satisfy ranking rule r for
\* the target name
ruleHits(cands, name, r) ==
    {k \in 1..Len(cands) :
        LET n == cands[k]
            sub == norm(uatName(n))
            shown == norm(n.name)
            t == norm(name)
        IN  CASE r = 1 -> isPrimaria(n) /\ sub = t
              [] r = 2 -> isPrimaria(n) /\ includes(sub, t)
              [] r = 3 -> isPrimaria(n) /\ includes(shown, t)
              [] r = 4 -> sub = t
              [] r = 5 -> includes(sub, t) \/ includes(shown, t)}

\* the first candidate, in search-index order, of the highest-priority rule
\* that some candidate satisfies; absent when there is none
rankedFirst(cands, name) ==
    LET rules == {r \in 1..5 : ruleHits(cands, name, r) # {}}
    IN  IF rules = {} THEN null
        ELSE LET best == CHOOSE r \in rules : \A q \in rules : r <= q
                 hits == ruleHits(cands, name, best)
             IN  cands[CHOOSE k \in hits : \A j \in hits : k <= j]

(* C24: from the filtered candidates of one strategy the Resolver returns
   the first candidate, in search-index order, of the highest-priority
   non-empty rule among (1) office and sub-locality name equal to the
   target, (2) office and sub-locality name contains the target, (3) office
   and display name contains the target, (4) sub-locality name equal to the
   target, (5) sub-locality or display name contains the target; a
   candidate that is no office is returned only when no office candidate
   satisfies rules 1 to 3. *)
C24_RankedFirstCandidate ==
    mDone /\ mImpl \in {"proxy", "proxy2"} =>
        LET cands == survivors(mNodes, mCounty)
        IN  /\ mMatch = rankedFirst(cands, mName)
            /\ (mMatch # null /\ ~isPrimaria(mMatch) =>
                  \A r \in 1..3 : ruleHits(cands, mName, r) = {})

\* the same asked of the first definition of findBestMatch only
C24_FirstDefinitionRanks ==
    mDone /\ mImpl = "proxy" =>
        mMatch = rankedFirst(survivors(mNodes, mCounty), mName)

-----------------------------------------------------------------------------
(* Specification SpecResolve: the resolution of one locality by the proxy's
   request handler (its three versions) and by searchEntity of
   retry-final.js, one search call a step; and by fetchWithRetry of
   retry-missing-uats.js, one request to the proxy a step *)

\* the localities resolved: <<county, name, kind>>
RTargets ==
    { << <<"A","l","b","a">>, <<"V","a","l","e","a"," ","M","a","r","e">>, "comuna" >>,
      << <<"A","l","b","a">>, <<"V","a","l","e","a","-","M","a","r","e">>, "comuna" >>,
      << <<"A","l","b","a">>, <<"T","e","i">>, "oras" >> }

\* a request to the proxy that carries no name
RBadTargets == { << <<"A","l","b","a">>, <<>>, "comuna" >> }

ProxyImpls == {"proxy", "proxy2", "proxy0"}
Impls == ProxyImpls \cup {"final", "retry"}

\* what fetchFinancialData and fetchHousingData may give the handler (null
\* also when the fetch is rejected)
FinResults == { null, [total |-> 1200, year |-> 2024] }
HouResults == { null, [count |-> 480, year |-> Num(2023)],
                [count |-> 0, year |-> Num(2023)] }

StrategiesOf(impl, county, name, kind) ==
    CASE impl = "proxy" -> searchStrategies(county, name)
      [] impl = "proxy2" -> searchStrategies2(county, name)
      [] impl = "proxy0" -> searchStrategies0(county, name)
      [] impl = "final" -> patterns(county, name, kind)

Matcher(impl, nodes, county, name) ==
    CASE impl = "proxy" ->
            findBestMatch(nodes, toUpperCase(county), toUpperCase(name))
      [] impl = "proxy2" ->
            findBestMatch2(nodes, toUpperCase(county), toUpperCase(name))
      [] impl = "proxy0" ->
            findMatch0(nodes, toUpperCase(county), toUpperCase(name))
      [] impl = "final" -> findFirstWithUat(nodes)

\* res.json({ entity, financial, housing }) of the handler
answer200(match, fin, hou) ==
    [status |-> 200, entity |-> match, financial |-> fin,
     housing |-> IF uatSiruta(match) # Null THEN hou ELSE null]

answerError(code) ==
    [status |-> code, entity |-> null, financial |-> null, housing |-> null]

\* fetch() of a script to the proxy is rejected (timeout, connection error)
\* or res.json() throws on a malformed body
fetchRejected ==
    [status |-> 0, entity |-> null, financial |-> null, housing |-> null]

\* an exception that leaves the function
thrown == [thrown |-> TRUE]

\* a handler that lets the exception through
tryFetchRethrow == thrown

\* catch { return null; } of tryFetch
tryFetchCatch == null

\* tryFetch of retry-missing-uats.js on the proxy's answer
tryFetch(res) ==
    IF res = fetchRejected THEN tryFetchCatch
    ELSE IF res.status # 200 THEN null
    ELSE IF \/ (res.financial # null /\ res.financial.total > 0)
            \/ (res.housing # null /\ res.housing.count > 0)
    THEN [tax |-> IF res.financial # null THEN res.financial.total ELSE 0,
          taxYear |-> IF res.financial # null
                      THEN Num(res.financial.year) ELSE Null,
          houses |-> IF res.housing # null THEN res.housing.count ELSE 0,
          housesYear |-> IF res.housing # null THEN res.housing.year ELSE Null]
    ELSE null

\* every answer the proxy (first copy) can give to a request for (county,
\* name): 500 when a search call fails, 404 when no strategy yields a match,
\* 200 with the match of the first strategy that yields one
ProxyAnswers(county, name) ==
    {answerError(500), answerError(404)}
    \cup { answer200(m, fin, hou) :
             m \in { findBestMatch(nodes, toUpperCase(county), toUpperCase(name)) :
                        nodes \in NodeLists } \ {null},
             fin \in FinResults, hou \in HouResults }

RInit ==
    /\ rImpl \in Impls
    /\ \E t \in RTargets \cup RBadTargets :
          /\ (t \in RBadTargets => rImpl \in ProxyImpls)
          /\ rCounty = t[1] /\ rName = t[2] /\ rKind = t[3]
    /\ rStage = "start" /\ rOuter = 0 /\ rStrategies = <<>> /\ rIdx = 0
    /\ rMatch = null /\ rLast = null /\ rEverMatched = FALSE
    /\ rAfterMatch = FALSE /\ rResp = null /\ rData = null /\ rStats = 0
    /\ QQuiet /\ MQuiet /\ BQuiet /\ XQuiet

\* fetchFinancialData(cui), siruta ? fetchHousingData(siruta) : Promise.resolve(null):
\* the statistics fetches the handler starts for its match
statsStarted(match) == IF uatSiruta(match) # <<>> THEN 2 ELSE 1

\* a handler that searches once before it looks at its parameters
RBadRequestAfterSearch ==
    /\ rStage = "start" /\ rImpl \in ProxyImpls
    /\ (rCounty = <<>> \/ rName = <<>>)
    /\ rStage' = "done400" /\ rIdx' = rIdx + 1
    /\ rResp' = answerError(400)
    /\ UNCHANGED <<rStats, rImpl, rCounty, rName, rKind, rOuter, rStrategies,
                   rMatch, rLast, rEverMatched, rAfterMatch, rData, qVars,
                   mVars, bVars, xVars>>

\* if (!county || !name) return res.status(400)
RBadRequest ==
    /\ rStage = "start" /\ rImpl \in ProxyImpls
    /\ (rCounty = <<>> \/ rName = <<>>)
    /\ rStage' = "done400"
    /\ rResp' = answerError(400)
    /\ UNCHANGED <<rStats, rImpl, rCounty, rName, rKind, rOuter, rStrategies, rIdx,
                   rMatch, rLast, rEverMatched, rAfterMatch, rData, qVars,
                   mVars, bVars, xVars>>

\* the strategies of the request (the patterns of the locality) are built
RBegin ==
    /\ rStage = "start" /\ rImpl # "retry"
    /\ rCounty # <<>> /\ rName # <<>>
    /\ rStrategies' = StrategiesOf(rImpl, rCounty, rName, rKind)
    /\ rStage' = "searching"
    /\ UNCHANGED <<rStats, rImpl, rCounty, rName, rKind, rOuter, rIdx, rMatch, rLast,
                   rEverMatched, rAfterMatch, rResp, rData, qVars, mVars,
                   bVars, xVars>>

\* one search call answers with a list of nodes
RSearchOk ==
    /\ rStage = "searching" /\ rImpl # "retry" /\ rIdx < Len(rStrategies)
    /\ \E nodes \in NodeLists :
          LET m == Matcher(rImpl, nodes, rCounty, rName)
              last == rIdx + 1 = Len(rStrategies)
          IN  /\ rMatch' = m
              /\ rLast' = [k |-> rIdx + 1, q |-> rStrategies[rIdx + 1],
                           hit |-> m # null]
              /\ rEverMatched' = (rEverMatched \/ m # null)
              /\ rStage' = CASE m # null /\ rImpl = "final" -> "returned"
                             [] m # null /\ rImpl # "final" -> "matched"
                             [] m = null /\ last /\ rImpl = "final" -> "absent"
                             [] m = null /\ last /\ rImpl # "final" -> "done404"
                             [] OTHER -> "searching"
              /\ rResp' = IF m = null /\ last /\ rImpl # "final"
                          THEN answerError(404) ELSE rResp
    /\ rIdx' = rIdx + 1
    /\ rAfterMatch' = (rAfterMatch \/ rEverMatched)
    /\ UNCHANGED <<rStats, rImpl, rCounty, rName, rKind, rOuter, rStrategies, rData,
                   qVars, mVars, bVars, xVars>>

\* one search call fails (timeout, non-2xx, GraphQL errors): the proxy's
\* handler ends in its catch with 500, searchEntity goes on with the next
\* pattern
RSearchFail ==
    /\ rStage = "searching" /\ rImpl # "retry" /\ rIdx < Len(rStrategies)
    /\ rLast' = [k |-> rIdx + 1, q |-> rStrategies[rIdx + 1], hit |-> FALSE]
    /\ rIdx' = rIdx + 1
    /\ rAfterMatch' = (rAfterMatch \/ rEverMatched)
    /\ rStage' = CASE rImpl # "final" -> "done500"
                   [] rImpl = "final" /\ rIdx + 1 = Len(rStrategies) -> "absent"
                   [] OTHER -> "searching"
    /\ rResp' = IF rImpl # "final" THEN answerError(500) ELSE rResp
    /\ UNCHANGED <<rStats, rImpl, rCounty, rName, rKind, rOuter, rStrategies, rMatch,
                   rEverMatched, rData, qVars, mVars, bVars, xVars>>

\* the handler fetches the statistics of its match and answers 200
RStats ==
    /\ rStage = "matched"
    /\ \E fin \in FinResults, hou \in HouResults :
          rResp' = answer200(rMatch, fin, hou)
    /\ rStage' = "done200"
    /\ rStats' = statsStarted(rMatch)
    /\ UNCHANGED <<rImpl, rCounty, rName, rKind, rOuter, rStrategies, rIdx,
                   rMatch, rLast, rEverMatched, rAfterMatch, rData, qVars,
                   mVars, bVars, xVars>>

\* fetchWithRetry: the next name is asked of the proxy, whose request issues
\* its search calls; tryFetch reads the answer; data ends the strategies, no
\* data leads to the next name
RTryFetch ==
    /\ rImpl = "retry" /\ rStage \in {"start", "searching"}
    /\ LET names == retryNames(rCounty, rName)
           o == rOuter + 1
       IN  \E res \in ProxyAnswers(rCounty, names[o]) :
              LET d == tryFetch(res)
              IN  /\ rOuter' = o
                  /\ rStrategies' = searchStrategies(rCounty, names[o])
                  /\ rResp' = res
                  /\ rMatch' = res.entity
                  /\ rData' = d
                  /\ rEverMatched' = (rEverMatched \/ res.status = 200)
                  /\ rAfterMatch' = (rAfterMatch \/ rEverMatched)
                  /\ rStage' = IF d # null THEN "returned"
                               ELSE IF o < Len(names) THEN "searching"
                               ELSE "absent"
    /\ UNCHANGED <<rStats, rImpl, rCounty, rName, rKind, rIdx, rLast, qVars, mVars,
                   bVars, xVars>>

RNext == RBadRequest \/ RBegin \/ RSearchOk \/ RSearchFail \/ RStats \/ RTryFetch

SpecResolve == RInit /\ [][RNext]_vars

(* C8: the Resolver issues its search queries strictly in the order of the
   strategies and, once the results of a query yield an acceptable match,
   issues no further search query for that locality; the match returned
   comes from the earliest strategy that yields one. *)
C8_StopAtFirstMatch ==
    /\ ~rAfterMatch
    /\ rLast # null => rLast.k = rIdx /\ rLast.q = rStrategies[rIdx]
    /\ rImpl # "retry" /\ rMatch # null => rLast.hit

(* C22: when the search call of one strategy fails (timeout, non-2xx,
   GraphQL error) the Resolver treats it as an empty result of that
   strategy: it goes on to the next strategy, or ends as "not found" after
   the last one, and never ends the resolution with an error. *)
C22_SearchFailureIsEmptyResult ==
    [][ RSearchFail =>
          LET last == rIdx + 1 = Len(rStrategies)
          IN  /\ rMatch' = rMatch /\ rResp' # answerError(500)
              /\ rStage' = (CASE last /\ rImpl = "final" -> "absent"
                              [] last /\ rImpl # "final" -> "done404"
                              [] OTHER -> "searching") ]_vars

(* C33: the proxy's entity-data request answers 400 with no search call
   issued when county or name is missing; it answers 404 with no statistics
   fetch started when every strategy has been searched and none yielded a
   match; statistics fetches are started only once a match has been
   selected, and only in the request that answers 200 with that match. *)
C33_ValidateThenSearchThenStats ==
    rImpl \in ProxyImpls =>
        /\ (rCounty = <<>> \/ rName = <<>>) =>
              /\ rStage \in {"start", "done400"}
              /\ rIdx = 0 /\ rStats = 0 /\ rLast = null
              /\ (rStage = "done400" => rResp = answerError(400))
        /\ rStage = "done400" => (rCounty = <<>> \/ rName = <<>>)
        /\ (rStage \notin {"start", "done500", "done400"}
              /\ rIdx = Len(rStrategies) /\ rMatch = null) =>
              /\ rStage = "done404" /\ rResp = answerError(404)
              /\ rStats = 0
        /\ rStage = "done404" =>
              /\ rMatch = null /\ ~rEverMatched /\ rIdx = Len(rStrategies)
              /\ rStats = 0
        /\ rStats > 0 =>
              /\ rMatch # null /\ rLast.hit /\ rStage = "done200"
              /\ rResp.status = 200
        /\ rStage \in {"start", "searching", "matched", "done500"} => rStats = 0

\* a request without a name has been answered
C33_Witness400 ==
    /\ rImpl \in ProxyImpls /\ rName = <<>> /\ rStage = "done400"

\* every strategy of a request with several strategies found nothing
C33_Witness404 ==
    /\ rImpl = "proxy" /\ rStage = "done404" /\ rIdx = Len(rStrategies)
    /\ rIdx > 1

\* a request answered with the statistics of its match
C33_Witness ==
    /\ rImpl \in ProxyImpls /\ rStage = "done200" /\ rStats = 2 /\ rIdx > 1

-----------------------------------------------------------------------------
(* Specification SpecQuery: the query strings generated for one locality *)

Kinds == {"municipiu", "oras", "comuna"}

QCounties ==
    { <<"A","l","b","a">>, <<"I","a","s~","i">>,
      <<"P","r","i","m","a","r","i","a">> }

QNames ==
    { <<"I","a","s~","i">>, <<"T","e","i">>,
      <<"V","a","l","e","a"," ","M","a","r","e">>,
      <<"V","a","l","e","a","-","M","a","r","e">>,
      <<"P","r","i","m","a","r","i","a">>,
      <<"P","i","a","t","r","a"," ","N","e","a","m","t~">> }

QInit ==
    /\ qImpl = "none" /\ qOut = <<>>
    /\ qCounty \in QCounties /\ qName \in QNames /\ qKind \in Kinds
    /\ MQuiet /\ RQuiet /\ BQuiet /\ XQuiet

QProxy ==
    /\ qImpl = "none"
    /\ qImpl' = "proxy"
    /\ qOut' = searchStrategies(qCounty, qName)
    /\ UNCHANGED <<qCounty, qName, qKind, mVars, rVars, bVars, xVars>>

QProxy2 ==
    /\ qImpl = "none"
    /\ qImpl' = "proxy2"
    /\ qOut' = searchStrategies2(qCounty, qName)
    /\ UNCHANGED <<qCounty, qName, qKind, mVars, rVars, bVars, xVars>>

QFinal ==
    /\ qImpl = "none"
    /\ qImpl' = "final"
    /\ qOut' = patterns(qCounty, qName, qKind)
    /\ UNCHANGED <<qCounty, qName, qKind, mVars, rVars, bVars, xVars>>

\* scripts/retry-missing-uats.js fetchWithRetry: the names it sends to the
\* proxy, should no attempt yield data
QRetry ==
    /\ qImpl = "none"
    /\ qImpl' = "retry"
    /\ qOut' = retryNames(qCounty, qName)
    /\ UNCHANGED <<qCounty, qName, qKind, mVars, rVars, bVars, xVars>>

QNext == QProxy \/ QProxy2 \/ QFinal \/ QRetry

SpecQuery == QInit /\ [][QNext]_vars

noDuplicates(a) == \A j, k \in 1..Len(a) : a[j] = a[k] => j = k

(* C9: for every (region, name, kind) the query strings generated for one
   locality hold no two equal strings and are at most 10. *)
C9_NoDuplicateQueries ==
    qImpl \in {"proxy", "final"} => noDuplicates(qOut) /\ Len(qOut) <= 10

\* the office word of the locality's kind with name and region, whatever the
\* case the generator writes the office word in
isOfficeRegionQuery(q) ==
    toUpperCase(q) = toUpperCase(TYPE_PREFIX(qKind) \o SP \o qName \o SP \o qCounty)

(* C10: every query carrying the office word of the locality's kind with the
   region (strategy 1) is tried before the generic "<name> <region>" query
   (strategy 3). *)
C10_OfficeBeforeGeneric ==
    qImpl \in {"proxy", "final"} =>
        \A a, b \in 1..Len(qOut) :
            isOfficeRegionQuery(qOut[a]) /\ qOut[b] = qName \o SP \o qCounty
                => a < b

(* C11: for a locality of kind K the first search query issued is exactly
   "<office word of K> <name> <region>", the office word being MUNICIPIUL
   for a municipality, ORASUL (s-comma) for a town and COMUNA for a
   commune. *)
C11_FirstQueryOfficeNameRegion ==
    qImpl \in {"proxy", "final"} =>
        /\ qOut # <<>>
        /\ qOut[1] = TYPE_PREFIX(qKind) \o SP \o qName \o SP \o qCounty

\* some generated query holds the given form of the name
queriesHold(form) == \E j \in 1..Len(qOut) : includes(qOut[j], form)

(* C21: the query sequence generated for a name containing a hyphen includes
   the variants with hyphens replaced by spaces, and the sequence generated
   for a name containing a space includes the variants with spaces replaced
   by hyphens, whichever generator builds the sequence. *)
C21_HyphenSpaceBothDirections ==
    qImpl \in {"proxy", "final", "retry"} =>
        /\ hasChar(qName, "-") => queriesHold(replaceAll(qName, "-", " "))
        /\ hasChar(qName, " ") => queriesHold(replaceAll(qName, " ", "-"))

-----------------------------------------------------------------------------
(* Specification Spec: runs of the batch scripts over the catalog and the
   persisted result store uat_data.js.  A store maps every key (county,
   locality) of the catalog to its record, or to null when the key is
   absent *)

\* romania_uat.js as the scripts load it
ROMANIA_UAT ==
    ( <<"A","l","b","a">> :>
        ( <<"V","a","l","e","a"," ","M","a","r","e">> :> [tip |-> "comuna"]
          @@ <<"T","e","i">> :> [tip |-> "oras"] ) )
    @@ ( <<"C","l","u","j">> :>
        ( <<"V","a","l","e","a"," ","M","a","r","e">> :> [tip |-> "comuna"] ) )

Keys == UNION { { <<c, u>> : u \in DOMAIN ROMANIA_UAT[c] } : c \in DOMAIN ROMANIA_UAT }

\* for (const county of Object.keys(ROMANIA_UAT).sort())
\*     for (const uat of Object.keys(ROMANIA_UAT[county]).sort())
RECURSIVE keysOf(_)
keysOf(counties) ==
    IF counties = <<>> THEN <<>>
    ELSE LET county == Head(counties)
             uats == sorted(DOMAIN ROMANIA_UAT[county])
         IN  [k \in 1..Len(uats) |-> <<county, uats[k]>>] \o keysOf(Tail(counties))

catalogOrder == keysOf(sorted(DOMAIN ROMANIA_UAT))

\* const result = {}
emptyStore == [k \in Keys |-> null]

\* a selection that takes every locality of the catalog
isMissingEvery(existing) == existing = null \/ existing # null

\* a selection that takes only the localities without a record
isMissingAbsentOnly(existing) == existing = null

\* !existing || (existing.tax === 0 && existing.houses === 0)
isMissing(existing) ==
    existing = null \/ (existing.tax = 0 /\ existing.houses = 0)

\* the loop that fills `missing`
selectMissing(store) ==
    SelectSeq(catalogOrder, LAMBDA k : isMissing(store[k]))

\* a test that asks for a tax amount
hasTax(d) == d # null /\ d.tax > 0

\* data && (data.tax > 0 || data.houses > 0)
hasData(d) == d # null /\ (d.tax > 0 \/ d.houses > 0)

\* catch (err) { return null; } of fetchUAT
fetchUATCatch == null

\* what a request of a script to the proxy can end with
proxyOutcomes(county, name) == ProxyAnswers(county, name) \cup {fetchRejected}

\* fetchUAT of fetch-all-uat-data.js on the proxy's answer
fetchUAT(res) ==
    IF res = fetchRejected THEN fetchUATCatch
    ELSE IF res.status # 200 THEN null
    ELSE IF res.financial = null /\ res.housing = null THEN null
    ELSE [tax |-> IF res.financial # null THEN res.financial.total ELSE 0,
          taxYear |-> IF res.financial # null
                      THEN Num(res.financial.year) ELSE Null,
          houses |-> IF res.housing # null THEN res.housing.count ELSE 0,
          housesYear |-> IF res.housing # null THEN res.housing.year ELSE Null]

\* what fetchUAT can return for each key
fetchUATResults ==
    [k \in Keys |-> { fetchUAT(res) : res \in proxyOutcomes(k[1], k[2]) }]

\* what fetchWithRetry can return for each key: the data of the first name
\* whose tryFetch gives data, null when none does
fetchWithRetryResults ==
    [k \in Keys |->
        LET names == retryNames(k[1], k[2])
        IN  {null} \cup
            UNION { { tryFetch(res) : res \in proxyOutcomes(k[1], names[o]) } :
                       o \in 1..Len(names) }]

\* the answers of the proxy behind fetchUAT, for each key
proxyAnswersOf == [k \in Keys |-> proxyOutcomes(k[1], k[2])]

\* the answer of the proxy that tryFetch read last when fetchWithRetry
\* returns d: that of any name when d is data, that of the last name when
\* no name gave data
lastAnswersOf ==
    [k \in Keys |->
        LET names == retryNames(k[1], k[2])
        IN  [d \in fetchWithRetryResults[k] |->
                UNION { { res \in proxyOutcomes(k[1], names[o]) :
                            /\ tryFetch(res) = d
                            /\ d = null => o = Len(names) } :
                        o \in 1..Len(names) }]]

\* what searchEntity can return: the first node with a siruta code of the
\* first pattern whose search has one, null when none has
searchEntityResults ==
    { findFirstWithUat(nodes) : nodes \in NodeLists }

\* what fetchFinancialForCui and fetchHousingForSiruta can return
FinForCui == { null, [tax |-> 1200, year |-> 2024] }
HousingForSiruta == { null, [count |-> 480, year |-> Num(2023)],
                      [count |-> 0, year |-> Num(2023)] }

Init ==
    /\ script = "none" /\ pc = "idle" /\ file = null /\ UAT_DATA = null
    /\ result = null /\ missing = <<>> /\ i = 0 /\ data = null /\ found = 0
    /\ stillMissing = 0 /\ fetched = 0 /\ failed = 0 /\ notFound = <<>>
    /\ pre = null /\ processed = <<>> /\ answer = null /\ catalogOk = TRUE
    /\ QQuiet /\ MQuiet /\ RQuiet /\ XQuiet

\* ---- scripts/fetch-all-uat-data.js

\* node scripts/fetch-all-uat-data.js: main starts with an empty result and
\* does not read the store
FetchAllStart ==
    /\ pc = "idle" /\ catalogOk' = TRUE
    /\ script' = "fetchAll" /\ pc' = "loop"
    /\ result' = emptyStore /\ UAT_DATA' = null
    /\ missing' = catalogOrder /\ i' = 1
    /\ fetched' = 0 /\ failed' = 0 /\ found' = 0 /\ stillMissing' = 0
    /\ notFound' = <<>> /\ data' = null /\ answer' = null
    /\ pre' = file /\ processed' = <<>>
    /\ UNCHANGED <<file, qVars, mVars, rVars, xVars>>

\* const data = await fetchUAT(county, uat)
FetchAllFetch ==
    /\ script = "fetchAll" /\ pc = "loop" /\ i <= Len(missing)
    /\ \E d \in fetchUATResults[missing[i]] :
          /\ data' = d
          /\ \E res \in proxyAnswersOf[missing[i]] :
                fetchUAT(res) = d /\ answer' = res
          /\ pc' = IF d = thrown THEN "exit1" ELSE "merge"
    /\ processed' = Append(processed, missing[i])
    /\ UNCHANGED <<catalogOk, script, file, UAT_DATA, result, missing, i, found,
                   stillMissing, fetched, failed, notFound, pre, qVars,
                   mVars, rVars, xVars>>

\* if (data && (data.tax > 0 || data.houses > 0)) result[county][uat] = data
FetchAllMerge ==
    /\ script = "fetchAll" /\ pc = "merge"
    /\ IF hasData(data)
       THEN /\ result' = [result EXCEPT ![missing[i]] = data]
            /\ fetched' = fetched + 1 /\ failed' = failed
       ELSE /\ result' = result
            /\ fetched' = fetched /\ failed' = failed + 1
    /\ i' = i + 1 /\ data' = null /\ answer' = null
    /\ pc' = IF i + 1 > Len(missing) THEN "write" ELSE "loop"
    /\ UNCHANGED <<catalogOk, script, file, UAT_DATA, missing, found, stillMissing,
                   notFound, pre, processed, qVars, mVars, rVars, xVars>>

\* fs.writeFileSync(OUTPUT_FILE, ... JSON.stringify(result))
FetchAllWrite ==
    /\ script = "fetchAll" /\ pc = "write"
    /\ file' = result
    /\ pc' = "done"
    /\ UNCHANGED <<catalogOk, script, UAT_DATA, result, missing, i, data, found,
                   stillMissing, fetched, failed, notFound, pre, processed,
                   answer, qVars, mVars, rVars, xVars>>

\* ---- scripts/retry-missing-uats.js

\* node scripts/retry-missing-uats.js: the store is loaded, the missing
\* localities are collected
RetryMissingStart ==
    /\ pc = "idle" /\ catalogOk' = TRUE /\ file # null
    /\ script' = "retryMissing" /\ pc' = IF selectMissing(file) = <<>> THEN "write" ELSE "loop"
    /\ UAT_DATA' = file /\ result' = null
    /\ missing' = selectMissing(file) /\ i' = 1
    /\ found' = 0 /\ stillMissing' = 0 /\ fetched' = 0 /\ failed' = 0
    /\ notFound' = <<>> /\ data' = null /\ answer' = null
    /\ pre' = file /\ processed' = <<>>
    /\ UNCHANGED <<file, qVars, mVars, rVars, xVars>>

\* const data = await fetchWithRetry(county, uat)
RetryMissingFetch ==
    /\ script = "retryMissing" /\ pc = "loop" /\ i <= Len(missing)
    /\ \E d \in fetchWithRetryResults[missing[i]] :
          /\ data' = d
          /\ \E res \in lastAnswersOf[missing[i]][d] : answer' = res
          /\ pc' = IF d = thrown THEN "exit1" ELSE "merge"
    /\ processed' = Append(processed, missing[i])
    /\ UNCHANGED <<catalogOk, script, file, UAT_DATA, result, missing, i, found,
                   stillMissing, fetched, failed, notFound, pre, qVars,
                   mVars, rVars, xVars>>

\* a merge that also writes the store file after each locality
MergeWithCheckpoint ==
    /\ script = "retryMissing" /\ pc = "merge"
    /\ IF hasData(data)
       THEN /\ UAT_DATA' = [UAT_DATA EXCEPT ![missing[i]] = data]
            /\ found' = found + 1 /\ stillMissing' = stillMissing
       ELSE /\ UAT_DATA' = UAT_DATA
            /\ found' = found /\ stillMissing' = stillMissing + 1
    /\ file' = UAT_DATA'
    /\ i' = i + 1 /\ data' = null /\ answer' = null
    /\ pc' = IF i + 1 > Len(missing) THEN "write" ELSE "loop"
    /\ UNCHANGED <<catalogOk, script, result, missing, fetched, failed, notFound,
                   pre, processed, qVars, mVars, rVars, xVars>>

\* if (data && (data.tax > 0 || data.houses > 0)) UAT_DATA[county][uat] = data
RetryMissingMerge ==
    /\ script = "retryMissing" /\ pc = "merge"
    /\ IF hasData(data)
       THEN /\ UAT_DATA' = [UAT_DATA EXCEPT ![missing[i]] = data]
            /\ found' = found + 1 /\ stillMissing' = stillMissing
       ELSE /\ UAT_DATA' = UAT_DATA
            /\ found' = found /\ stillMissing' = stillMissing + 1
    /\ i' = i + 1 /\ data' = null /\ answer' = null
    /\ pc' = IF i + 1 > Len(missing) THEN "write" ELSE "loop"
    /\ UNCHANGED <<catalogOk, script, file, result, missing, fetched, failed, notFound,
                   pre, processed, qVars, mVars, rVars, xVars>>

\* fs.writeFileSync(OUTPUT_FILE, content, 'utf-8')
RetryMissingWrite ==
    /\ script = "retryMissing" /\ pc = "write"
    /\ file' = UAT_DATA
    /\ pc' = "done"
    /\ UNCHANGED <<catalogOk, script, UAT_DATA, result, missing, i, data, found,
                   stillMissing, fetched, failed, notFound, pre, processed,
                   answer, qVars, mVars, rVars, xVars>>

\* ---- scripts/retry-final.js

\* node scripts/retry-final.js: the store is loaded, the missing localities
\* are collected with their kind
RetryFinalStart ==
    /\ pc = "idle" /\ catalogOk' = TRUE /\ file # null
    /\ script' = "retryFinal" /\ pc' = IF selectMissing(file) = <<>> THEN "write" ELSE "loop"
    /\ UAT_DATA' = file /\ result' = null
    /\ missing' = selectMissing(file) /\ i' = 1
    /\ found' = 0 /\ stillMissing' = 0 /\ fetched' = 0 /\ failed' = 0
    /\ notFound' = <<>> /\ data' = null /\ answer' = null
    /\ pre' = file /\ processed' = <<>>
    /\ UNCHANGED <<file, qVars, mVars, rVars, xVars>>

\* const entity = await searchEntity(patterns);
\* const [fin, housing] = await Promise.all([...])
RetryFinalFetch ==
    /\ script = "retryFinal" /\ pc = "loop" /\ i <= Len(missing)
    /\ \E entity \in searchEntityResults :
          IF entity = null
          THEN data' = [entity |-> null, fin |-> null, housing |-> null]
          ELSE \E fin \in FinForCui, housing \in HousingForSiruta :
                  data' = [entity |-> entity, fin |-> fin,
                           housing |-> IF uatSiruta(entity) # Null
                                       THEN housing ELSE null]
    /\ processed' = Append(processed, missing[i])
    /\ pc' = "merge" /\ answer' = null
    /\ UNCHANGED <<catalogOk, script, file, UAT_DATA, result, missing, i, found,
                   stillMissing, fetched, failed, notFound, pre, qVars,
                   mVars, rVars, xVars>>

\* a merge that counts an unresolved locality without listing it
MergeWithoutReport ==
    /\ script = "retryFinal" /\ pc = "merge"
    /\ IF data.entity # null /\ (data.fin # null \/ data.housing # null)
       THEN /\ UAT_DATA' =
                 [UAT_DATA EXCEPT ![missing[i]] =
                    [tax |-> IF data.fin # null THEN data.fin.tax ELSE 0,
                     taxYear |-> IF data.fin # null
                                 THEN Num(data.fin.year) ELSE Null,
                     houses |-> IF data.housing # null
                                THEN data.housing.count ELSE 0,
                     housesYear |-> IF data.housing # null
                                    THEN data.housing.year ELSE Null]]
            /\ found' = found + 1 /\ stillMissing' = stillMissing
            /\ notFound' = notFound
       ELSE /\ UAT_DATA' = UAT_DATA
            /\ found' = found /\ stillMissing' = stillMissing + 1
            /\ notFound' = notFound
    /\ i' = i + 1 /\ data' = null /\ answer' = null
    /\ pc' = IF i + 1 > Len(missing) THEN "write" ELSE "loop"
    /\ UNCHANGED <<catalogOk, script, file, result, missing, fetched, failed, pre,
                   processed, qVars, mVars, rVars, xVars>>

\* if (entity) { if (fin || housing) { UAT_DATA[county][uat] = result } ... }
RetryFinalMerge ==
    /\ script = "retryFinal" /\ pc = "merge"
    /\ IF data.entity # null /\ (data.fin # null \/ data.housing # null)
       THEN /\ UAT_DATA' =
                 [UAT_DATA EXCEPT ![missing[i]] =
                    [tax |-> IF data.fin # null THEN data.fin.tax ELSE 0,
                     taxYear |-> IF data.fin # null
                                 THEN Num(data.fin.year) ELSE Null,
                     houses |-> IF data.housing # null
                                THEN data.housing.count ELSE 0,
                     housesYear |-> IF data.housing # null
                                    THEN data.housing.year ELSE Null]]
            /\ found' = found + 1 /\ stillMissing' = stillMissing
            /\ notFound' = notFound
       ELSE /\ UAT_DATA' = UAT_DATA
            /\ found' = found /\ stillMissing' = stillMissing + 1
            /\ notFound' = Append(notFound,
                   [key |-> missing[i],
                    why |-> IF data.entity # null THEN "entity found, no data"
                            ELSE "no entity found"])
    /\ i' = i + 1 /\ data' = null /\ answer' = null
    /\ pc' = IF i + 1 > Len(missing) THEN "write" ELSE "loop"
    /\ UNCHANGED <<catalogOk, script, file, result, missing, fetched, failed, pre,
                   processed, qVars, mVars, rVars, xVars>>

\* fs.writeFileSync(OUTPUT_FILE, header + ...)
RetryFinalWrite ==
    /\ script = "retryFinal" /\ pc = "write"
    /\ file' = UAT_DATA
    /\ pc' = "done"
    /\ UNCHANGED <<catalogOk, script, UAT_DATA, result, missing, i, data, found,
                   stillMissing, fetched, failed, notFound, pre, processed,
                   answer, qVars, mVars, rVars, xVars>>

\* ---- module setup of the three scripts

\* a failed setup that leaves an empty store behind
SetupFailWritesStore ==
    /\ pc = "idle" /\ catalogOk' = FALSE
    /\ script' = "retryMissing" /\ pc' = "exit1"
    /\ file' = emptyStore
    /\ UNCHANGED <<UAT_DATA, result, missing, i, data, found, stillMissing,
                   fetched, failed, notFound, pre, processed, answer, qVars,
                   mVars, rVars, xVars>>

\* fetch-all-uat-data.js: romania_uat.js cannot be read (readFileSync throws)
\* or holds no ROMANIA_UAT object (process.exit(1))
FetchAllSetupFail ==
    /\ pc = "idle" /\ catalogOk' = FALSE
    /\ script' = "fetchAll" /\ pc' = "exit1"
    /\ UNCHANGED <<file, UAT_DATA, result, missing, i, data, found,
                   stillMissing, fetched, failed, notFound, pre, processed,
                   answer, qVars, mVars, rVars, xVars>>

\* retry-missing-uats.js: romania_uat.js or uat_data.js cannot be read or
\* parsed; the exception of the module's top level ends the process
RetryMissingSetupFail ==
    /\ pc = "idle"
    /\ \E ok \in BOOLEAN : catalogOk' = ok /\ (~ok \/ file = null)
    /\ script' = "retryMissing" /\ pc' = "exit1"
    /\ UNCHANGED <<file, UAT_DATA, result, missing, i, data, found,
                   stillMissing, fetched, failed, notFound, pre, processed,
                   answer, qVars, mVars, rVars, xVars>>

\* retry-final.js: the same setup
RetryFinalSetupFail ==
    /\ pc = "idle"
    /\ \E ok \in BOOLEAN : catalogOk' = ok /\ (~ok \/ file = null)
    /\ script' = "retryFinal" /\ pc' = "exit1"
    /\ UNCHANGED <<file, UAT_DATA, result, missing, i, data, found,
                   stillMissing, fetched, failed, notFound, pre, processed,
                   answer, qVars, mVars, rVars, xVars>>

\* the process of a script ends, after its summary or with status 1; the
\* next run is a new process
Exit ==
    /\ pc \in {"done", "exit1"} /\ catalogOk' = TRUE
    /\ script' = "none" /\ pc' = "idle"
    /\ UAT_DATA' = null /\ result' = null /\ missing' = <<>> /\ i' = 0
    /\ data' = null /\ found' = 0 /\ stillMissing' = 0 /\ fetched' = 0
    /\ failed' = 0 /\ notFound' = <<>> /\ pre' = null /\ processed' = <<>>
    /\ answer' = null
    /\ UNCHANGED <<file, qVars, mVars, rVars, xVars>>

Next ==
    \/ FetchAllStart \/ FetchAllFetch \/ FetchAllMerge \/ FetchAllWrite
    \/ RetryMissingStart \/ RetryMissingFetch \/ RetryMissingMerge
    \/ RetryMissingWrite
    \/ RetryFinalStart \/ RetryFinalFetch \/ RetryFinalMerge
    \/ RetryFinalWrite
    \/ FetchAllSetupFail \/ RetryMissingSetupFail \/ RetryFinalSetupFail
    \/ Exit

Spec == Init /\ [][Next]_vars

\* a retry script past its setup
retryRun ==
    /\ script \in {"retryMissing", "retryFinal"}
    /\ pc \in {"loop", "merge", "write", "done"}

(* C1: every locality whose stored record has tax > 0 or houses > 0 before
   a retry run starts keeps an identical record throughout the run and in
   the store the run writes, whatever the calls of the run return. *)
C1_NonZeroRecordsUnchanged ==
    retryRun =>
        \A k \in Keys :
            pre[k] # null /\ (pre[k].tax > 0 \/ pre[k].houses > 0) =>
                /\ UAT_DATA[k] = pre[k]
                /\ file[k] = pre[k]

\* a retry run has written the store; one record with data was there before
\* the run and another key got a new record
C1_Witness ==
    /\ retryRun /\ pc = "done"
    /\ \E k \in Keys : pre[k] # null /\ (pre[k].tax > 0 \/ pre[k].houses > 0)
    /\ \E k \in Keys : file[k] # pre[k]

(* C2: over any sequence of batch runs, the store a run writes has a record
   with data for every key that had a record with data before the run. *)
C2_KeysWithDataNeverShrink ==
    pc = "done" /\ pre # null =>
        \A k \in Keys :
            pre[k] # null /\ (pre[k].tax > 0 \/ pre[k].houses > 0) =>
                file[k] # null /\ (file[k].tax > 0 \/ file[k].houses > 0)

(* C3: the retry list holds a locality of the catalog if and only if the
   loaded store has no record for it or a record with tax = 0 and
   houses = 0; no locality with tax > 0 or houses > 0 is queried. *)
C3_SelectTargets ==
    retryRun =>
        /\ \A k \in Keys :
              (\E j \in 1..Len(missing) : missing[j] = k)
                  <=> (pre[k] = null \/ (pre[k].tax = 0 /\ pre[k].houses = 0))
        /\ \A j \in 1..Len(processed) :
              LET r == pre[processed[j]]
              IN  r = null \/ ~(r.tax > 0 \/ r.houses > 0)

\* a retry run that queried a locality absent from the store and a locality
\* with a zero record, and left out a locality with data
C3_Witness ==
    /\ retryRun
    /\ \E j \in 1..Len(processed) : pre[processed[j]] = null
    /\ \E j \in 1..Len(processed) :
          LET r == pre[processed[j]]
          IN  r # null /\ r.tax = 0 /\ r.houses = 0
    /\ \E k \in Keys :
          /\ pre[k] # null /\ (pre[k].tax > 0 \/ pre[k].houses > 0)
          /\ \A j \in 1..Len(missing) : missing[j] # k

(* C15: when resolution succeeds, the tax fetch gives nothing and the
   housing fetch gives a count above 0 (480 for 2023), the record merged into
   the store for the locality is {tax: 0, taxYear: null, houses: 480,
   housesYear: 2023}: a result with houses > 0 is merged though its tax
   is 0. *)
C15_HousesOnlyMerged ==
    [][ retryRun /\ pc = "merge" =>
          LET k == missing[i]
              merged(housing) ==
                  UAT_DATA'[k] = [tax |-> 0, taxYear |-> Null,
                                  houses |-> housing.count,
                                  housesYear |-> housing.year]
          IN  /\ ( /\ script = "retryMissing"
                   /\ answer.status = 200 /\ answer.financial = null
                   /\ answer.housing # null /\ answer.housing.count > 0
                   => merged(answer.housing) )
              /\ ( /\ script = "retryFinal"
                   /\ data.entity # null /\ data.fin = null
                   /\ data.housing # null /\ data.housing.count > 0
                   => merged(data.housing) ) ]_vars

\* a retry run has merged {tax: 0, taxYear: null, houses: 480, housesYear:
\* 2023} for a locality that had no data
C15_Witness ==
    /\ retryRun /\ pc \in {"loop", "write"}
    /\ \E k \in Keys :
          /\ UAT_DATA[k] = [tax |-> 0, taxYear |-> Null, houses |-> 480,
                            housesYear |-> Num(2023)]
          /\ pre[k] # UAT_DATA[k]
          /\ \E j \in 1..Len(processed) : processed[j] = k
\* the call made for the locality at hand failed: the request to the proxy
\* was rejected, timed out or had a malformed body, or the proxy answered
\* with a non-2xx status; searchEntity found nothing
failedCall ==
    \/ script \in {"fetchAll", "retryMissing"} /\ answer.status # 200
    \/ script = "retryFinal" /\ data.entity = null

(* C17: a timeout, a non-2xx response, a malformed payload or a thrown error
   in a search or statistics call made for one locality never aborts the
   batch run: the locality is counted as unresolved, the run goes on with
   the next locality and still writes the store at its end. *)
C17_FailuresNeverAbort ==
    [][ /\ pc = "loop" => pc' = "merge"
        /\ pc = "merge" /\ failedCall =>
              /\ i' = i + 1
              /\ pc' = (IF i < Len(missing) THEN "loop" ELSE "write")
              /\ (script = "fetchAll" =>
                      failed' = failed + 1 /\ result' = result)
              /\ (script # "fetchAll" =>
                      stillMissing' = stillMissing + 1 /\ UAT_DATA' = UAT_DATA)
        /\ pc = "write" =>
              /\ pc' = "done"
              /\ file' = (IF script = "fetchAll" THEN result ELSE UAT_DATA) ]_vars

\* the request for the second locality of a retry run was rejected
C17_Witness ==
    /\ script = "retryMissing" /\ pc = "merge" /\ i > 1
    /\ answer = fetchRejected

(* C18 as stated: if the catalog file or the existing store file cannot be
   read or parsed at start, the batch run (of any of the three scripts) ends
   with a non-zero exit status without a network call and without writing
   the store file. *)
C18_SetupFailureAnyScript ==
    [][ pc = "idle" /\ pc' # "idle" /\ (~catalogOk' \/ file = null) =>
            pc' = "exit1" /\ file' = file /\ processed' = <<>> ]_vars

(* C18: if a file that the script loads at start cannot be read or parsed
   (the catalog for the three scripts, the existing store for the two retry
   scripts), the run ends with a non-zero exit status without a network call
   and without writing the store file; the full fetch does not load the
   store and runs without it. *)
C18_SetupFailureExits ==
    [][ /\ pc = "idle" /\ pc' # "idle" =>
              LET unreadable ==
                      \/ ~catalogOk'
                      \/ script' \in {"retryMissing", "retryFinal"} /\ file = null
              IN  /\ unreadable =>
                        pc' = "exit1" /\ file' = file /\ processed' = <<>>
                  /\ ~unreadable => pc' # "exit1"
        /\ pc = "exit1" =>
              /\ processed = <<>> /\ answer = null
              /\ pc' = "idle" /\ file' = file ]_vars

\* a retry script could not read the catalog; the store that exists is left
\* as it was
C18_Witness ==
    /\ pc = "exit1" /\ script \in {"retryMissing", "retryFinal"}
    /\ ~catalogOk /\ file # null /\ processed = <<>>

(* C19: a locality is counted as found (found++ of the retry scripts,
   fetched++ of the full fetch) only if the record stored for it has tax > 0
   or houses > 0; a record with tax = 0 and houses = 0 is never counted as a
   success and the locality stays a target of the next run. *)
C19_FoundOnlyWithData ==
    [][ (script \in {"fetchAll", "retryMissing", "retryFinal"} /\ pc = "merge") =>
          LET k == missing[i]
              stored == IF script = "fetchAll" THEN result'[k] ELSE UAT_DATA'[k]
          IN  found' + fetched' > found + fetched =>
                  (hasData(stored) /\ ~isMissing(stored)) ]_vars

(* C20: every target locality that ends a retry run unresolved is reported
   with exactly one failure class: "no entity found" when no strategy
   produced a match, "entity found, no data" when a match was produced and
   both statistic fetches yielded nothing usable. *)
C20_OneFailureClass ==
    [][ (script \in {"retryMissing", "retryFinal"} /\ pc = "merge") =>
          LET k == missing[i]
              noEntity == IF script = "retryFinal" THEN data.entity = null
                          ELSE answer.status # 200
          IN  isMissing(UAT_DATA'[k]) =>
                  notFound' = Append(notFound,
                      [key |-> k,
                       why |-> IF noEntity THEN "no entity found"
                               ELSE "entity found, no data"]) ]_vars

\* the record a retry script has produced for the locality at hand; a
\* locality without any result has the zero record
producedRecord ==
    LET zero == [tax |-> 0, taxYear |-> Null, houses |-> 0, housesYear |-> Null]
    IN  IF script = "retryMissing"
        THEN (IF data = null THEN zero ELSE data)
        ELSE IF data.entity = null THEN zero
        ELSE [tax |-> IF data.fin # null THEN data.fin.tax ELSE 0,
              taxYear |-> IF data.fin # null THEN Num(data.fin.year) ELSE Null,
              houses |-> IF data.housing # null THEN data.housing.count ELSE 0,
              housesYear |-> IF data.housing # null
                             THEN data.housing.year ELSE Null]

(* C23: the merge step of a retry run writes the produced record under the
   locality's key exactly when the record has tax > 0 or houses > 0, or the
   store held no record for the key before: a zero result for a locality
   without a prior record is written as a zero record, and a zero result
   never replaces an existing record. *)
C23_MergeWritesNonZeroOrNew ==
    [][ (retryRun /\ pc = "merge") =>
          LET k == missing[i]
          IN  IF hasData(producedRecord) \/ UAT_DATA[k] = null
              THEN UAT_DATA' = [UAT_DATA EXCEPT ![k] = producedRecord]
              ELSE UAT_DATA' = UAT_DATA ]_vars

\* key a comes before key b: by region, then by name, strings compared as
\* sort() compares them
keyLess(a, b) == lessStr(a[1], b[1]) \/ (a[1] = b[1] /\ lessStr(a[2], b[2]))

\* the run of a script is past its setup
running == script # "none" /\ pc \in {"loop", "merge", "write", "done"}

(* C25: in every batch run the localities are processed in ascending order
   of region and, within a region, of name (the order of sort() on the
   keys); the localities processed so far are the first ones of a sequence
   that the catalog and the store read at start determine, so two runs over
   the same catalog and the same starting store process the same localities
   in the same order. *)
C25_AscendingDeterministicOrder ==
    running =>
        /\ \A j, k \in 1..Len(processed) :
              j < k => keyLess(processed[j], processed[k])
        /\ LET targets == IF script = "fetchAll" THEN catalogOrder
                          ELSE selectMissing(pre)
           IN  /\ Len(processed) <= Len(targets)
               /\ processed = SubSeq(targets, 1, Len(processed))
        /\ pc \in {"write", "done"} =>
              Len(processed) = Len(missing)

\* a retry run has processed two localities of one region and goes on
C25_Witness ==
    /\ script = "retryMissing" /\ pc = "loop"
    /\ Len(processed) = 2 /\ processed[1][1] = processed[2][1]
    /\ Len(missing) = 3

(* C27: the store file is written once per run, by the write step that
   follows the last locality; while the loop over the localities runs the
   file is unchanged and equal to the store read at start, so a run that is
   interrupted between two localities leaves the file as it was before the
   run. *)
C27_WriteOnceAfterLoop ==
    [][ /\ (running /\ pc \in {"loop", "merge"}) =>
              /\ file' = file
              /\ (script # "fetchAll" => file = pre)
        /\ (running /\ pc' = "write" /\ pc # "write") =>
              /\ i' = Len(missing) + 1 /\ Len(processed') = Len(missing)
              /\ file' = file
        /\ (running /\ pc = "write") =>
              /\ pc' = "done"
              /\ file' = (IF script = "fetchAll" THEN result ELSE UAT_DATA)
        /\ (running /\ pc = "done") => (pc' = "idle" /\ file' = file) ]_vars

\* between two localities of a retry run: the first one got a record in
\* memory, the file is as it was before the run
C27_Witness ==
    /\ script \in {"retryMissing", "retryFinal"} /\ pc = "loop" /\ i = 2
    /\ UAT_DATA # file /\ file = pre

\* the entity behind the result a retry script has at its merge step
sourceEntity ==
    IF script = "retryMissing" THEN answer.entity ELSE data.entity

(* C29: a record stored under the key (region, name) by a retry run comes
   from an entity of that same region whose sub-locality name or display
   name holds that same full locality name; the statistics of an entity
   matched only through a shortened query, or without a check of region and
   name, are never stored under the key of the locality. *)
C29_StoredFromSameRegionAndName ==
    [][ (retryRun /\ pc = "merge") =>
          LET k == missing[i]
          IN  UAT_DATA'[k] # UAT_DATA[k] =>
                  /\ sourceEntity # null
                  /\ toUpperCase(uatCounty(sourceEntity)) = toUpperCase(k[1])
                  /\ containsName(sourceEntity, k[2]) ]_vars

\* the localities whose result has been merged and counted
counted == IF pc \in {"loop", "merge"} THEN i - 1 ELSE Len(missing)

(* C30: after k targets have been processed in a batch run,
   found + stillMissing = k (fetched + failed = k in the full fetch); at
   the end the sum is the number of selected targets; in retry-final.js the
   list of unresolved localities has exactly stillMissing entries. *)
C30_CountersAddUp ==
    running =>
        /\ (script = "fetchAll" =>
              fetched + failed = counted /\ found = 0 /\ stillMissing = 0)
        /\ (script # "fetchAll" =>
              found + stillMissing = counted /\ fetched = 0 /\ failed = 0)
        /\ (pc = "merge" => Len(processed) = counted + 1)
        /\ (pc # "merge" => Len(processed) = counted)
        /\ (pc \in {"write", "done"} =>
              counted = Len(IF script = "fetchAll" THEN catalogOrder
                            ELSE selectMissing(pre)))
        /\ (script = "retryFinal" => Len(notFound) = stillMissing)

\* a retry-final run at its end with a resolved and an unresolved locality
C30_Witness ==
    /\ script = "retryFinal" /\ pc = "done"
    /\ found >= 1 /\ stillMissing >= 1 /\ Len(notFound) = stillMissing

\* the store a batch run keeps in memory
storeInMemory == IF script = "fetchAll" THEN result ELSE UAT_DATA

(* C32: every record a batch script puts into the store at its merge step
   has taxYear null exactly when tax is 0 and housesYear null exactly when
   houses is 0. *)
C32_YearNullIffZero ==
    [][ (running /\ pc = "merge") =>
          LET k == missing[i]
              new == IF script = "fetchAll" THEN result'[k] ELSE UAT_DATA'[k]
          IN  (new # storeInMemory[k] /\ new # null) =>
                  /\ (new.taxYear = Null <=> new.tax = 0)
                  /\ (new.housesYear = Null <=> new.houses = 0) ]_vars

-----------------------------------------------------------------------------
(* Specification SpecTax: the tax fetch of one entity, one AggregatedLineItems
   query per year.  Amounts are in thousandths of a RON; an amount that
   parseFloat cannot read is Null.  The source aggregates by functional code:
   the rows of one year hold the code 07.01.01 at most once *)

MaxRows == 2

\* the same years, oldest first
yearsOldestFirst == <<2022, 2023, 2024, 2025>>

\* const yearsToTry = [2025, 2024, 2023, 2022]
yearsToTry == <<2025, 2024, 2023, 2022>>

fn070101 == "07.01.01"

TaxRows ==
    { [fn_c |-> fn070101, amount |-> Num(0)],
      [fn_c |-> fn070101, amount |-> Null],
      [fn_c |-> fn070101, amount |-> Num(4)],
      [fn_c |-> fn070101, amount |-> Num(12345)],
      [fn_c |-> "07.01.02", amount |-> Num(999)] }

\* what one query can give: an error (timeout, non-2xx, GraphQL errors) or
\* the rows of data.aggregatedLineItems?.nodes || []
TaxResponses ==
    { [error |-> TRUE] }
    \cup { [nodes |-> l] :
             l \in { l \in UNION { [1..n -> TaxRows] : n \in 0..MaxRows } :
                        \A j, k \in 1..Len(l) :
                            l[j].fn_c = fn070101 /\ l[k].fn_c = fn070101
                                => j = k } }

isError(resp) == resp = [error |-> TRUE]

\* parseFloat(node.amount) || 0
parseAmount(a) == IF a = Null THEN 0 ELSE a[1]

\* Math.round(x * 100) / 100
round2(m) == ((m + 5) \div 10) * 10

\* server.js fetchFinancialData: the body of the loop for one year; null
\* stands for `continue`
yearOfProxy(year, resp) ==
    IF isError(resp) THEN null
    ELSE IF Len(resp.nodes) = 0 THEN null
    ELSE LET F[k \in 0..Len(resp.nodes)] ==
                 IF k = 0 THEN 0
                 ELSE IF resp.nodes[k].fn_c = fn070101
                      THEN parseAmount(resp.nodes[k].amount)
                      ELSE F[k - 1]
             impozitCladiriFizice == F[Len(resp.nodes)]
         IN  IF impozitCladiriFizice > 0
             THEN [year |-> year, total |-> round2(impozitCladiriFizice)]
             ELSE null

\* retry-final.js fetchFinancialForCui: the body of the loop for one year
yearOfFinal(year, resp) ==
    IF isError(resp) THEN null
    ELSE LET hit(n) == n.fn_c = fn070101 /\ parseAmount(n.amount) > 0
             n == find(resp.nodes, {r \in elems(resp.nodes) : hit(r)})
         IN  IF n # null
             THEN [tax |-> round2(parseAmount(n.amount)), year |-> year]
             ELSE null

TInit ==
    /\ tImpl \in {"proxy", "final"}
    /\ tSeen = <<>> /\ tResult = null /\ tDone = FALSE
    /\ QQuiet /\ MQuiet /\ RQuiet /\ BQuiet /\ HQuiet /\ AQuiet /\ PQuiet

\* fetchFinancialData asks the next year
TProxyYear ==
    /\ tImpl = "proxy" /\ ~tDone /\ Len(tSeen) < Len(yearsToTry)
    /\ \E resp \in TaxResponses :
          LET year == yearsToTry[Len(tSeen) + 1]
              r == yearOfProxy(year, resp)
          IN  /\ tSeen' = Append(tSeen, [year |-> year, resp |-> resp])
              /\ tResult' = r
              /\ tDone' = (r # null \/ Len(tSeen) + 1 = Len(yearsToTry))
    /\ UNCHANGED <<tImpl, qVars, mVars, rVars, bVars, hVars, aVars, pVars>>

\* fetchFinancialForCui asks the next year
TFinalYear ==
    /\ tImpl = "final" /\ ~tDone /\ Len(tSeen) < Len(yearsToTry)
    /\ \E resp \in TaxResponses :
          LET year == yearsToTry[Len(tSeen) + 1]
              r == yearOfFinal(year, resp)
          IN  /\ tSeen' = Append(tSeen, [year |-> year, resp |-> resp])
              /\ tResult' = r
              /\ tDone' = (r # null \/ Len(tSeen) + 1 = Len(yearsToTry))
    /\ UNCHANGED <<tImpl, qVars, mVars, rVars, bVars, hVars, aVars, pVars>>

TNext == TProxyYear \/ TFinalYear

SpecTax == TInit /\ [][TNext]_vars

\* the amount of the target category in what a year's query gave, if it is
\* strictly positive
positiveAmount(resp) ==
    IF isError(resp) THEN Null
    ELSE LET rows == {r \in elems(resp.nodes) :
                         r.fn_c = "07.01.01" /\ r.amount # Null /\ r.amount[1] > 0}
         IN  IF rows = {} THEN Null ELSE (CHOOSE r \in rows : TRUE).amount

(* C12: the tax fetch asks the years 2025, 2024, 2023, 2022 in this order
   and returns the first year whose amount of the target category is strictly
   positive, with that amount (rounded to two decimals); years with zero, no
   rows or an error are skipped; when no year is positive the result is
   absent. *)
C12_FirstPositiveYear ==
    /\ \A k \in 1..Len(tSeen) :
          /\ k <= 4 /\ tSeen[k].year = <<2025, 2024, 2023, 2022>>[k]
          /\ k < Len(tSeen) => positiveAmount(tSeen[k].resp) = Null
    /\ tDone =>
          LET last == tSeen[Len(tSeen)]
              amt == positiveAmount(last.resp)
          IN  IF amt # Null
              THEN /\ tResult # null /\ tResult.year = last.year
                   /\ (tImpl = "proxy" =>
                          tResult.total = ((amt[1] + 5) \div 10) * 10)
                   /\ (tImpl = "final" =>
                          tResult.tax = ((amt[1] + 5) \div 10) * 10)
              ELSE tResult = null /\ Len(tSeen) = 4
    /\ ~tDone => tResult = null

\* only 2023 is positive: 2025 gave an error, 2024 a zero amount, and the
\* result is 2023 with its amount
C12_Witness ==
    /\ tDone /\ Len(tSeen) = 3
    /\ isError(tSeen[1].resp)
    /\ ~isError(tSeen[2].resp) /\ positiveAmount(tSeen[2].resp) = Null
    /\ tSeen[2].resp.nodes # <<>>
    /\ tResult # null /\ tResult.year = 2023

-----------------------------------------------------------------------------
(* Specification SpecTaxPair: fetchFinancialData of the proxy and
   fetchFinancialForCui of retry-final.js given the same response year after
   year, the rows of a year holding any codes in any number.  Neither
   function looks back at the response of an earlier year: tSeen keeps the
   response of the last year only, and tResult.plain tells whether no year
   so far held the category twice *)

\* what one query can give when nothing is assumed about the rows
RawTaxResponses ==
    { [error |-> TRUE] }
    \cup { [nodes |-> l] : l \in UNION { [1..n -> TaxRows] : n \in 0..MaxRows } }

TPairInit ==
    /\ tImpl = "pair"
    /\ tSeen = <<>>
    /\ tResult = [proxy |-> null, final |-> null, plain |-> TRUE]
    /\ tDone = FALSE
    /\ QQuiet /\ MQuiet /\ RQuiet /\ BQuiet /\ HQuiet /\ AQuiet /\ PQuiet

\* both functions ask the next year and get the same response; a function
\* that has returned asks no more
TPairYear ==
    /\ tImpl = "pair" /\ ~tDone /\ Len(tSeen) < Len(yearsToTry)
    /\ \E resp \in RawTaxResponses :
          LET year == yearsToTry[Len(tSeen) + 1]
              p == IF tResult.proxy # null THEN tResult.proxy
                   ELSE yearOfProxy(year, resp)
              f == IF tResult.final # null THEN tResult.final
                   ELSE yearOfFinal(year, resp)
          IN  /\ tSeen' = Append([k \in 1..Len(tSeen) |->
                                      [year |-> tSeen[k].year, resp |-> null]],
                                  [year |-> year, resp |-> resp])
              /\ tResult' = [proxy |-> p, final |-> f,
                             plain |-> tResult.plain /\ resp \in TaxResponses]
              /\ tDone' = \/ (p # null /\ f # null)
                          \/ Len(tSeen) + 1 = Len(yearsToTry)
    /\ UNCHANGED <<tImpl, qVars, mVars, rVars, bVars, hVars, aVars, pVars>>

SpecTaxPair == TPairInit /\ [][TPairYear]_vars

(* C31: for the same responses of the per-year queries, the rows of a year
   holding the category 07.01.01 several times or a zero amount after a
   positive one included, fetchFinancialData and fetchFinancialForCui return
   the same year and the same amount, or both return nothing. *)
C31_SameYearSameAmount ==
    tImpl = "pair" =>
        IF tResult.proxy = null \/ tResult.final = null
        THEN tResult.proxy = null /\ tResult.final = null
        ELSE /\ tResult.proxy.year = tResult.final.year
             /\ tResult.proxy.total = tResult.final.tax

\* the two functions agree as long as no year holds the category twice
C31_AgreeOnSingleRows ==
    (tImpl = "pair" /\ tResult.plain) =>
        IF tResult.proxy = null \/ tResult.final = null
        THEN tResult.proxy = null /\ tResult.final = null
        ELSE /\ tResult.proxy.year = tResult.final.year
             /\ tResult.proxy.total = tResult.final.tax

-----------------------------------------------------------------------------
(* Specification SpecHousing: the housing fetch of one sub-locality code, one
   InsObservations query for all years.  The value of an observation is what
   parseInt reads from it, Null when it reads no number; a year that is
   missing (time_period?.year undefined) is Null *)

MaxObs == 3

Observations ==
    { [value |-> Num(480), year |-> Num(2023)],
      [value |-> Num(300), year |-> Num(2022)],
      [value |-> Null, year |-> Num(2021)],
      [value |-> Num(10), year |-> Null] }

\* what the query can give: an error, or data.insObservations?.nodes || []
HousingResponses ==
    { [error |-> TRUE] }
    \cup { [nodes |-> l] : l \in UNION { [1..n -> Observations] : n \in 0..MaxObs } }

\* a > b on two years, either of which may be undefined
jsGreater(a, b) == a # Null /\ b # Null /\ a[1] > b[1]

\* let latest = nodes[0]; for (const node of nodes) if (node.year > latest.year) latest = node
latestOf(nodes) ==
    LET F[k \in 1..Len(nodes)] ==
            IF k = 1 THEN nodes[1]
            ELSE IF jsGreater(nodes[k].year, F[k - 1].year) THEN nodes[k]
                 ELSE F[k - 1]
    IN  F[Len(nodes)]

\* parseInt(latest.value) || 0
parseCount(v) == IF v = Null THEN 0 ELSE v[1]

\* server.js fetchHousingData; the error of the query is not caught, the
\* promise is rejected
fetchHousingData(resp) ==
    IF isError(resp) THEN [rejected |-> TRUE]
    ELSE IF Len(resp.nodes) = 0 THEN null
    ELSE LET latest == latestOf(resp.nodes)
         IN  [year |-> latest.year, count |-> parseCount(latest.value)]

\* retry-final.js fetchHousingForSiruta; catch { return null }
fetchHousingForSiruta(resp) ==
    IF isError(resp) THEN null
    ELSE IF Len(resp.nodes) = 0 THEN null
    ELSE LET latest == latestOf(resp.nodes)
         IN  [count |-> parseCount(latest.value), year |-> latest.year]

HInit ==
    /\ hImpl \in {"proxy", "final"}
    /\ hResp \in HousingResponses
    /\ hResult = null /\ hDone = FALSE
    /\ QQuiet /\ MQuiet /\ RQuiet /\ BQuiet /\ TQuiet /\ AQuiet /\ PQuiet

HProxy ==
    /\ hImpl = "proxy" /\ ~hDone
    /\ hResult' = fetchHousingData(hResp)
    /\ hDone' = TRUE
    /\ UNCHANGED <<hImpl, hResp, qVars, mVars, rVars, bVars, tVars, aVars, pVars>>

HFinal ==
    /\ hImpl = "final" /\ ~hDone
    /\ hResult' = fetchHousingForSiruta(hResp)
    /\ hDone' = TRUE
    /\ UNCHANGED <<hImpl, hResp, qVars, mVars, rVars, bVars, tVars, aVars, pVars>>

HNext == HProxy \/ HFinal

SpecHousing == HInit /\ [][HNext]_vars

(* C13: for every non-empty list of housing observations, in any order and
   with observations whose year is missing, the housing fetch returns the
   observation with the numerically largest year: the year of the result is
   that year and its count is the integer value of that observation, 0 when
   it cannot be read. *)
C13_LargestYear ==
    hDone /\ ~isError(hResp) /\ hResp.nodes # <<>> =>
        LET nodes == hResp.nodes
            dated == {k \in 1..Len(nodes) : nodes[k].year # Null}
        IN  /\ hResult # null
            /\ dated # {} =>
                  \E k \in dated :
                      /\ \A j \in dated : nodes[j].year[1] <= nodes[k].year[1]
                      /\ hResult.year = nodes[k].year
                      /\ hResult.count =
                            (IF nodes[k].value = Null THEN 0 ELSE nodes[k].value[1])

-----------------------------------------------------------------------------
(* Specification SpecAggregate: the tax fetch and the housing fetch of one
   resolved entity, started together and joined.  A promise is pending,
   fulfilled with a value, or rejected *)

pending == [state |-> "pending"]
fulfilled(v) == [state |-> "fulfilled", value |-> v]
rejected == [state |-> "rejected"]

\* the entities a resolution can end with
AMatches == {n \in CandNodes : n.uat # null}

\* a join that fails as a whole when one of the two promises is rejected
settledFailFast(fin, hou) ==
    IF fin.state = "rejected" \/ hou.state = "rejected"
    THEN [failed |-> TRUE]
    ELSE [financial |-> fin.value, housing |-> hou.value]

\* Promise.allSettled([...]) and the two lines that read its results
allSettled(fin, hou) ==
    [financial |-> IF fin.state = "fulfilled" THEN fin.value ELSE null,
     housing |-> IF hou.state = "fulfilled" THEN hou.value ELSE null]

\* Promise.all([...]) of retry-final.js: a rejection rejects the whole
all(fin, hou) ==
    IF fin.state = "rejected" \/ hou.state = "rejected"
    THEN [failed |-> TRUE]
    ELSE [fin |-> fin.value, housing |-> hou.value]

AInit ==
    /\ aImpl \in {"proxy", "final"}
    /\ aMatch \in AMatches
    /\ aStage = "resolved" /\ aFin = null /\ aHou = null /\ aOut = null
    /\ QQuiet /\ MQuiet /\ RQuiet /\ BQuiet /\ TQuiet /\ HQuiet /\ PQuiet

\* both fetches are started; without a siruta code the housing part is
\* null at once
AStart ==
    /\ aStage = "resolved"
    /\ aFin' = pending
    /\ aHou' = IF uatSiruta(aMatch) # Null THEN pending ELSE fulfilled(null)
    /\ aStage' = "running"
    /\ UNCHANGED <<aImpl, aMatch, aOut, qVars, mVars, rVars, bVars, tVars,
                   hVars, pVars>>

\* fetchFinancialData of the handler settles: every error is caught inside
AProxyFin ==
    /\ aImpl = "proxy" /\ aStage = "running" /\ aFin = pending
    /\ \E v \in FinResults : aFin' = fulfilled(v)
    /\ UNCHANGED <<aImpl, aMatch, aStage, aHou, aOut, qVars, mVars, rVars,
                   bVars, tVars, hVars, pVars>>

\* fetchHousingData of the handler settles: an error of the query rejects it
AProxyHou ==
    /\ aImpl = "proxy" /\ aStage = "running" /\ aHou = pending
    /\ \/ \E v \in HouResults : aHou' = fulfilled(v)
       \/ aHou' = rejected
    /\ UNCHANGED <<aImpl, aMatch, aStage, aFin, aOut, qVars, mVars, rVars,
                   bVars, tVars, hVars, pVars>>

\* await Promise.allSettled(...); res.json({ entity, financial, housing })
AProxyJoin ==
    /\ aImpl = "proxy" /\ aStage = "running"
    /\ aFin # pending /\ aHou # pending
    /\ aOut' = allSettled(aFin, aHou)
    /\ aStage' = "joined"
    /\ UNCHANGED <<aImpl, aMatch, aFin, aHou, qVars, mVars, rVars, bVars,
                   tVars, hVars, pVars>>

\* fetchFinancialForCui settles: every error is caught inside
AFinalFin ==
    /\ aImpl = "final" /\ aStage = "running" /\ aFin = pending
    /\ \E v \in FinForCui : aFin' = fulfilled(v)
    /\ UNCHANGED <<aImpl, aMatch, aStage, aHou, aOut, qVars, mVars, rVars,
                   bVars, tVars, hVars, pVars>>

\* fetchHousingForSiruta settles: catch { return null }
AFinalHou ==
    /\ aImpl = "final" /\ aStage = "running" /\ aHou = pending
    /\ \E v \in HousingForSiruta : aHou' = fulfilled(v)
    /\ UNCHANGED <<aImpl, aMatch, aStage, aFin, aOut, qVars, mVars, rVars,
                   bVars, tVars, hVars, pVars>>

\* const [fin, housing] = await Promise.all([...])
AFinalJoin ==
    /\ aImpl = "final" /\ aStage = "running"
    /\ aFin # pending /\ aHou # pending
    /\ aOut' = all(aFin, aHou)
    /\ aStage' = IF all(aFin, aHou) = [failed |-> TRUE] THEN "failed" ELSE "joined"
    /\ UNCHANGED <<aImpl, aMatch, aFin, aHou, qVars, mVars, rVars, bVars,
                   tVars, hVars, pVars>>

ANext ==
    \/ AStart
    \/ AProxyFin \/ AProxyHou \/ AProxyJoin
    \/ AFinalFin \/ AFinalHou \/ AFinalJoin

SpecAggregate == AInit /\ [][ANext]_vars

(* C14: the tax fetch and the housing fetch are started together and joined;
   under every interleaving and every failure of one of them the result of
   the other is delivered unchanged in the combined result, the failed part
   being null, and the aggregation of the locality does not fail as a
   whole. *)
C14_IndependentFetches ==
    /\ aStage # "failed"
    /\ aStage = "running" => aFin # null /\ aHou # null
    /\ aStage = "joined" =>
          /\ aOut # [failed |-> TRUE]
          /\ LET financial == IF aImpl = "proxy" THEN aOut.financial ELSE aOut.fin
             IN  financial = (IF aFin.state = "fulfilled" THEN aFin.value ELSE null)
          /\ aOut.housing = (IF aHou.state = "fulfilled" THEN aHou.value ELSE null)

\* the housing fetch failed after the tax fetch had delivered, and the tax
\* part is in the combined result
C14_Witness ==
    /\ aStage = "joined" /\ aImpl = "proxy"
    /\ aHou = rejected
    /\ aFin.state = "fulfilled" /\ aFin.value # null
    /\ aOut.financial = aFin.value /\ aOut.housing = null

-----------------------------------------------------------------------------
(* Specification SpecPacing: the network calls of one run of a batch script,
   locality after locality.  pCalls holds the calls the script awaits,
   pHandlers the localities of the requests that the proxy goes on handling
   after the script gave them up; a handler at work has a call to the
   statistics service in flight; a call may stay without answer for ever *)

MaxLocalities == 2

Scripts == {"fetchAll", "retryMissing", "retryFinal"}

\* the calls a script issues one after the other for one locality before it
\* gives up: one request of fetchUAT, the five names of fetchWithRetry, the
\* six patterns of searchEntity
attemptsOf(s) ==
    CASE s = "fetchAll" -> 1
      [] s = "retryMissing" -> 5
      [] s = "retryFinal" -> 6

\* a fetch with a signal that aborts it
withAbortSignal(loc, to) == [loc |-> loc, to |-> to, bounded |-> TRUE]

\* fetch(url, { timeout: 30000 }) of fetchUAT: fetch takes no timeout
\* option, the call carries no signal
withTimeoutOption(loc, to) == [loc |-> loc, to |-> to, bounded |-> FALSE]

\* graphql of server.js: fetch(GRAPHQL_URL, { method, headers, body }), no
\* timeout and no signal
handlerCallBounded == FALSE

\* the call a script issues for an attempt: fetchUAT and tryFetch ask the
\* proxy, searchEntity asks the service through graphql
callOf(s, loc) ==
    CASE s = "fetchAll" -> withTimeoutOption(loc, "proxy")
      [] s = "retryMissing" -> withAbortSignal(loc, "proxy")
      [] s = "retryFinal" -> withAbortSignal(loc, "search")

\* Promise.all([fetchFinancialForCui(cui), siruta ? fetchHousingForSiruta : null])
statsCalls(loc, hasSiruta) ==
    {withAbortSignal(loc, "financial")}
    \cup (IF hasSiruta THEN {withAbortSignal(loc, "housing")} ELSE {})

\* the script leaves the attempt at hand without data
afterAttempt(gotData) ==
    IF gotData \/ pAttempt = attemptsOf(pScript)
    THEN pStage' = "merge" /\ pAttempt' = pAttempt
    ELSE pStage' = "ready" /\ pAttempt' = pAttempt + 1

PInit ==
    /\ pScript \in Scripts /\ pIdx = 1 /\ pStage = "ready" /\ pAttempt = 1
    /\ pCalls = {} /\ pHandlers = {}
    /\ QQuiet /\ MQuiet /\ RQuiet /\ BQuiet /\ TQuiet /\ HQuiet /\ AQuiet

\* the script issues the call of its next attempt; a request to the proxy
\* starts the proxy's handler, which calls the service (graphql of
\* server.js, a fetch without timeout)
PCall ==
    /\ pStage = "ready"
    /\ pCalls' = {callOf(pScript, pIdx)}
    /\ pStage' = "waiting"
    /\ UNCHANGED <<pScript, pIdx, pAttempt, pHandlers, qVars, mVars, rVars, bVars, tVars,
                   hVars, aVars>>

\* the awaited call is answered: the proxy's handler has ended and sent its
\* response, or the service has answered a search of searchEntity, which
\* goes on with the two statistics fetches when the answer holds a match
PAnswered ==
    /\ pStage = "waiting" /\ pCalls # {}
    /\ \E c \in pCalls, good \in BOOLEAN, hasSiruta \in BOOLEAN :
          CASE c.to = "proxy" ->
                  /\ pCalls' = {}
                  /\ afterAttempt(good)
                  /\ UNCHANGED pHandlers
            [] c.to = "search" /\ good ->
                  /\ pCalls' = statsCalls(pIdx, hasSiruta)
                  /\ pStage' = "waiting"
                  /\ UNCHANGED <<pHandlers, pAttempt>>
            [] c.to = "search" /\ ~good ->
                  /\ pCalls' = {}
                  /\ afterAttempt(FALSE)
                  /\ UNCHANGED pHandlers
            [] OTHER ->
                  /\ pCalls' = pCalls \ {c}
                  /\ pStage' = IF pCalls = {c} THEN "merge" ELSE "waiting"
                  /\ UNCHANGED <<pHandlers, pAttempt>>
    /\ UNCHANGED <<pScript, pIdx, qVars, mVars, rVars, bVars, tVars, hVars,
                   aVars>>

\* AbortSignal.timeout(30000) of tryFetch and of graphql of retry-final.js
\* fires: the call is aborted and the catch gives no data; a handler of the
\* proxy goes on with its calls
PTimeout ==
    /\ pStage = "waiting"
    /\ \E c \in pCalls :
          /\ c.bounded
          /\ pCalls' = pCalls \ {c}
          /\ pHandlers' = IF c.to = "proxy" THEN pHandlers \cup {c.loc}
                          ELSE pHandlers
          /\ IF c.to \in {"proxy", "search"}
             THEN afterAttempt(FALSE)
             ELSE /\ pStage' = IF pCalls = {c} THEN "merge" ELSE "waiting"
                  /\ pAttempt' = pAttempt
    /\ UNCHANGED <<pScript, pIdx, qVars, mVars, rVars, bVars, tVars,
                   hVars, aVars>>

\* a call without signal fails by itself (connection lost, or the runtime
\* gives it up): fetchUAT's catch gives no data
PCallFails ==
    /\ pStage = "waiting"
    /\ \E c \in pCalls :
          /\ ~c.bounded
          /\ pCalls' = pCalls \ {c}
          /\ pHandlers' = pHandlers \cup {c.loc}
          /\ afterAttempt(FALSE)
    /\ UNCHANGED <<pScript, pIdx, qVars, mVars, rVars, bVars, tVars,
                   hVars, aVars>>

\* the handlers of a locality whose requests the script awaits no more end
PHandlerEnds ==
    /\ \E h \in pHandlers : pHandlers' = pHandlers \ {h}
    /\ UNCHANGED <<pScript, pIdx, pStage, pAttempt, pCalls, qVars, mVars,
                   rVars, bVars, tVars, hVars, aVars>>

\* the result of the locality is merged and counted
PMerge ==
    /\ pStage = "merge"
    /\ pStage' = "sleep"
    /\ UNCHANGED <<pScript, pIdx, pAttempt, pCalls, pHandlers, qVars, mVars,
                   rVars, bVars, tVars, hVars, aVars>>

\* await sleep(DELAY_MS) ends: the next locality, or the store is written
\* and main returns
PSleepDone ==
    /\ pStage = "sleep"
    /\ IF pIdx < MaxLocalities
       THEN pIdx' = pIdx + 1 /\ pStage' = "ready" /\ pAttempt' = 1
       ELSE pIdx' = pIdx /\ pStage' = "end" /\ pAttempt' = pAttempt
    /\ UNCHANGED <<pScript, pCalls, pHandlers, qVars, mVars, rVars, bVars,
                   tVars, hVars, aVars>>

PNext ==
    \/ PCall \/ PAnswered \/ PTimeout \/ PCallFails \/ PHandlerEnds
    \/ PMerge \/ PSleepDone

\* the script's own steps are taken when they can be and a timeout fires
\* when its time has passed; no answer and no failure of a call is promised
SpecPacing ==
    /\ PInit /\ [][PNext]_vars
    /\ WF_vars(PCall) /\ WF_vars(PTimeout) /\ WF_vars(PMerge)
    /\ WF_vars(PSleepDone)

\* the localities for which the proxy has a call to the service in flight
proxyAtWork == pHandlers \cup {c.loc : c \in {d \in pCalls : d.to = "proxy"}}

(* C26: at no point of a batch run are network calls of two different
   localities in flight: every call in flight, of the script or of the
   proxy on its behalf, belongs to the locality at hand, and the next
   locality is started only after the merge and the pacing delay. *)
C26_OneLocalityInFlight ==
    [][ /\ \A c \in pCalls : c.loc = pIdx
        /\ \A h \in proxyAtWork : h = pIdx
        /\ pIdx' # pIdx => pStage = "sleep" /\ pCalls = {} ]_vars

\* the calls the script itself awaits belong to the locality at hand and
\* the next locality starts after the pacing delay
C26_ScriptCallsSequential ==
    [][ /\ \A c \in pCalls : c.loc = pIdx
        /\ pIdx' # pIdx => pStage = "sleep" /\ pCalls = {} ]_vars

(* C28: every network call made during a batch run is bounded by a timeout,
   so whatever calls are slow, fail or are never answered, the run
   processes every target, writes the store and ends. *)
C28_BoundedCallsRunEnds ==
    /\ [](\A c \in pCalls : c.bounded)
    /\ [](\A h \in proxyAtWork : handlerCallBounded)
    /\ <>(pStage = "end")

\* the runs of the two retry scripts end whatever the calls do
C28_RetryRunsEnd == pScript # "fetchAll" ~> pStage = "end"

====
